---- MODULE Spec2Model ----
(***************************************************************************)
(* Clinic scheduling assistant: the Dialogflow-variant chat handler        *)
(* (web_speech_api_version/dialogflow_version/app.py), the session store   *)
(* (services/session_manager.py), the date helpers                         *)
(* (helpers/helper_functions.py) and the schedule / booking services       *)
(* (services/schedule_handler.py, services/booking_handler.py).            *)
(*                                                                         *)
(* One request is handled by one Chat step (the whole handler, with every  *)
(* session and database write it makes); Respond hands the reply to the    *)
(* caller and ends the request.  SpecConcurrent runs book_appointment      *)
(* statement by statement for callers that share the table and calendar.   *)
(***************************************************************************)
EXTENDS Integers, Sequences, FiniteSets, TLC

VARIABLES
    sessions,   \* session_manager.sessions: session id -> context dict
    db,         \* the schedules table: slot key -> row
    calendar,   \* ids of the events that exist in the external calendar
    turn,       \* the request being answered: input, reply, calls; NoTurn when idle
    procs,      \* the book_appointment calls in progress: caller -> its position and locals
    llm         \* the LLMManager instance of the LLM variant's process

vars == <<sessions, db, calendar, turn, procs, llm>>

(***************************************************************************)
(* Python values.  Every value is a record tagged by t, so that values of  *)
(* different Python types can be compared.                                 *)
(***************************************************************************)
None == [t |-> "none"]
True == [t |-> "bool"]
False == [t |-> "False"]
\* a Python str, as its sequence of characters
Str(chars) == [t |-> "str", s |-> chars]
\* a non-string, non-empty parameter value (a protobuf struct or list)
Struct == [t |-> "struct"]

\* str.strip(): leading and trailing whitespace removed
RECURSIVE LStrip(_)
LStrip(s) == IF s # <<>> /\ Head(s) = " " THEN LStrip(Tail(s)) ELSE s
RECURSIVE RStrip(_)
RStrip(s) ==
    IF s # <<>> /\ s[Len(s)] = " " THEN RStrip(SubSeq(s, 1, Len(s) - 1)) ELSE s
Strip(s) == RStrip(LStrip(s))

\* SQL LOWER() on the characters the doctor names use
LowerChar(c) ==
    CASE c = "L" -> "l"
      [] c = "Z" -> "z"
      [] c = "K" -> "k"
      [] OTHER -> c
Lower(s) == [i \in 1..Len(s) |-> LowerChar(s[i])]

(***************************************************************************)
(* Date-time parameter values.  An ISO string is kept as its parts: the    *)
(* calendar day, the clock reading (NoTime for a date-only string) and     *)
(* whether a "+hh:mm" offset suffix follows.  NotIso is any other text.    *)
(***************************************************************************)
NoTime == -1
IsoStr(day, hour, off) == [t |-> "str", iso |-> TRUE, day |-> day, hour |-> hour, off |-> off]
NotIso == [t |-> "str", iso |-> FALSE, day |-> 0, hour |-> NoTime, off |-> FALSE]
\* a mapping value: raw is TRUE for the protobuf MapComposite the NLU client
\* returns, FALSE once dict() has copied it into a Python dict
Map(raw, m) == [t |-> "map", raw |-> raw, m |-> m]

\* Python truthiness of a parameter value
Truthy(v) ==
    CASE v.t \in {"none", "False"} -> FALSE
      [] v.t = "str" /\ "s" \in DOMAIN v -> v.s # <<>>
      [] OTHER -> TRUE

(***************************************************************************)
(* Session store (services/session_manager.py).  A context is a Python     *)
(* dict: a function from the keys it holds to their values.                *)
(***************************************************************************)
SessionIds == {"s1"}
\* request.json carries no 'session_id'
NoSessionId == ""
\* str(uuid.uuid4()): the values it yields, in the order they are drawn; ids
\* are opaque, and a drawn id is one that is not in use
GeneratedIds == <<"u1", "u2", "u3", "u4">>
uuid4(taken) ==
    GeneratedIds[CHOOSE i \in 1..Len(GeneratedIds) :
                    /\ GeneratedIds[i] \notin taken
                    /\ \A k \in 1..(i - 1) : GeneratedIds[k] \in taken]

EmptyDict == [k \in {} |-> None]
\* d[k] = v
DictSet(d, k, v) == [x \in DOMAIN d \cup {k} |-> IF x = k THEN v ELSE d[x]]
\* d.get(k)
DictGet(d, k) == IF k \in DOMAIN d THEN d[k] ELSE None

\* get_session, handing out a new empty context on every call
get_session_fresh(store, sid) ==
    [x \in DOMAIN store \cup {sid} |-> IF x = sid THEN EmptyDict ELSE store[x]]

\* get_session: the store afterwards (the context is created when absent)
get_session(store, sid) ==
    IF sid \in DOMAIN store
    THEN store
    ELSE [x \in DOMAIN store \cup {sid} |-> IF x = sid THEN EmptyDict ELSE store[x]]

update_session(store, sid, key, value) ==
    LET st == get_session(store, sid)
    IN  [st EXCEPT ![sid] = DictSet(@, key, value)]

\* clear_session, dropping every context
clear_all_sessions(store, sid) == [x \in {} |-> EmptyDict]

\* clear_session, emptying the context instead of removing it
clear_session_emptying(store, sid) ==
    IF sid \in DOMAIN store THEN [store EXCEPT ![sid] = EmptyDict] ELSE store

clear_session(store, sid) ==
    IF sid \in DOMAIN store
    THEN [x \in DOMAIN store \ {sid} |-> store[x]]
    ELSE store

(***************************************************************************)
(* Date helpers (helpers/helper_functions.py).  A datetime is a calendar   *)
(* day and a clock reading; a failed resolution is None.                   *)
(***************************************************************************)
DateTime(day, hour) == [t |-> "datetime", day |-> day, hour |-> hour]

\* datetime.fromisoformat on a string with any "+hh:mm" suffix already cut off
FromIso(v) ==
    IF v.t = "str" /\ "iso" \in DOMAIN v /\ v.iso
    THEN DateTime(v.day, IF v.hour = NoTime THEN 0 ELSE v.hour)
    ELSE None

\* parse_datetime_param: the clock reading of the string is kept, an offset
\* suffix is dropped; a raw MapComposite is neither str nor dict
parse_datetime_param(date_param) ==
    CASE date_param.t = "str" -> FromIso(date_param)
      [] date_param.t = "map" /\ ~date_param.raw ->
            LET m == date_param.m
            IN  CASE "date_time" \in DOMAIN m -> FromIso(m.date_time)
                  [] "startDate" \in DOMAIN m -> FromIso(m.startDate)
                  [] OTHER -> None
      [] OTHER -> None

\* LOCAL_TIMEZONE.localize(parsed.replace(hour=0, ...)): midnight of the day;
\* localize raises on a datetime that already carries an offset
LocalMidnight(v) ==
    IF v.t = "str" /\ "iso" \in DOMAIN v /\ v.iso /\ ~v.off
    THEN DateTime(v.day, 0)
    ELSE None

\* parse_date_range_param: (start_dt, end_dt), each None when not resolved
parse_date_range_param(date_param) ==
    CASE date_param.t = "str" ->
            LET start == LocalMidnight(date_param)
            IN  IF start = None
                THEN [start |-> None, end |-> None]
                ELSE [start |-> start, end |-> DateTime(start.day + 1, 0)]
      [] date_param.t = "map" /\ ~date_param.raw /\ "startDate" \in DOMAIN date_param.m ->
            LET m == date_param.m
                parsedOk == "endDate" \in DOMAIN m
                            /\ FromIso(m.startDate) # None /\ FromIso(m.endDate) # None
                start == IF parsedOk THEN LocalMidnight(m.startDate) ELSE None
                end == IF start # None THEN LocalMidnight(m.endDate) ELSE None
            IN  [start |-> start,
                 end |-> IF end # None /\ end.day = start.day
                         THEN DateTime(end.day + 1, 0) ELSE end]
      [] OTHER -> [start |-> None, end |-> None]

(***************************************************************************)
(* The schedules table.  A row: Doctor, DateTime (day, hour), Status,      *)
(* CalendarEventId (0 is NULL) and whether the Email column is filled.     *)
(***************************************************************************)
Lee == <<"L", "e", "e">>
Kim == <<"K", "i", "m">>
\* a name no row carries
Zed == <<"Z", "e", "d">>

Row(doctor, day, hour, status, event, email) ==
    [doctor |-> doctor, day |-> day, hour |-> hour, status |-> status,
     event |-> event, email |-> email]

\* the imported table: Lee has an open and a booked slot, Kim an open one
InitDb ==
    <<Row(Lee, 1, 13, "Open", 0, TRUE),
      Row(Lee, 1, 14, "Booked", 0, TRUE),
      Row(Kim, 1, 13, "Open", 0, TRUE)>>

World(d, c) == [db |-> d, calendar |-> c]

\* created_event.get('id'): an id no event of the calendar and no row carries
\* (ids are opaque; the least unused number stands for a fresh one)
FreshEventId(w) ==
    LET used == w.calendar \cup {w.db[i].event : i \in DOMAIN w.db}
    IN  CHOOSE n \in 1..(Cardinality(used) + 1) :
            n \notin used /\ \A k \in 1..(n - 1) : k \in used

\* WHERE LOWER(Doctor) = LOWER(?) AND DateTime = ?
MatchingRows(d, doctor, dt) ==
    {i \in DOMAIN d : /\ Lower(d[i].doctor) = Lower(doctor.s)
                      /\ d[i].day = dt.day
                      /\ d[i].hour = dt.hour}

\* cursor.fetchone(): the first row of the result
FirstOf(S) == CHOOSE i \in S : \A j \in S : i <= j

\* a reply text: the format string and the values substituted into it
Reply(msg, args) == [msg |-> msg, args |-> args]

\* strftime('%I:%M %p') of a clock reading
Format12(hour) ==
    [t |-> "time", h12 |-> IF hour % 12 = 0 THEN 12 ELSE hour % 12, pm |-> hour >= 12]

(***************************************************************************)
(* services/booking_handler.py.  dbFails: sqlite raises in this call;      *)
(* calFails: the calendar API call of this call raises.  Binding a         *)
(* non-string doctor raises a sqlite error as well.                        *)
(***************************************************************************)
validate_slot(d, doctor, dt, dbFails) ==
    IF dbFails \/ doctor.t # "str"
    THEN "error"
    ELSE LET rows == MatchingRows(d, doctor, dt)
         IN  IF rows = {} THEN "not_found"
             ELSE CASE d[FirstOf(rows)].status = "Open" -> "available"
                    [] d[FirstOf(rows)].status = "Booked" -> "booked"
                    [] OTHER -> "not_found"

Outcome(w, success, message) == [world |-> w, success |-> success, message |-> message]

\* BookedRow, not storing the event id
BookedRowNoRef(row, id) == [row EXCEPT !.status = "Booked"]

\* lines 93-98: SET Status = 'Booked', CalendarEventId = ?
BookedRow(row, id) == [row EXCEPT !.status = "Booked", !.event = id]

\* OpenedRow, leaving the event id in the row
OpenedRowKeepsRef(row) == [row EXCEPT !.status = "Open"]

\* lines 166-171: SET Status = 'Open', CalendarEventId = NULL
OpenedRow(row) == [row EXCEPT !.status = "Open", !.event = 0]

\* CalendarDeleteFails, taking every answer of the calendar as success
CalendarDeleteNeverFails(ev, calFails) == FALSE

\* lines 146-163: the delete is attempted when the row holds an event id; an
\* event that is already gone (HTTP 404) is no failure, any other error is
CalendarDeleteFails(ev, calFails) == ev # 0 /\ calFails

book_appointment(w, doctor, dt, dbFails, calFails) ==
    IF dbFails \/ doctor.t # "str"
    THEN Outcome(w, FALSE, Reply("Failed to book appointment due to a database error.", <<>>))
    ELSE
    LET all == MatchingRows(w.db, doctor, dt)
        open == {i \in all : w.db[i].status = "Open"}
        id == FreshEventId(w)
    IN  CASE open = {} ->
                Outcome(w, FALSE, Reply("This slot is no longer available.", <<>>))
          [] open # {} /\ ~w.db[FirstOf(open)].email ->
                Outcome(w, FALSE,
                    Reply("Could not find an email address for {doctor} in the database.",
                          <<doctor>>))
          [] open # {} /\ w.db[FirstOf(open)].email /\ calFails ->
                Outcome(w, FALSE,
                    Reply("Failed to create calendar event: {cal_error}", <<>>))
          [] OTHER ->
                Outcome(
                    World([i \in DOMAIN w.db |->
                              IF i \in all
                              THEN BookedRow(w.db[i], id)
                              ELSE w.db[i]],
                          w.calendar \cup {id}),
                    TRUE,
                    Reply("Appointment booked successfully! The calendar for {doctor} has been updated.",
                          <<doctor>>))

cancel_appointment_flow(w, doctor, dt, dbFails, calFails) ==
    IF dbFails \/ doctor.t # "str"
    THEN Outcome(w, FALSE,
            Reply("Failed to cancel the appointment due to a database error.", <<>>))
    ELSE
    LET all == MatchingRows(w.db, doctor, dt)
        booked == {i \in all : w.db[i].status = "Booked"}
        ev == w.db[FirstOf(booked)].event
    IN  CASE booked = {} ->
                Outcome(w, FALSE,
                    Reply("I couldn't find a booked appointment for that doctor at that specific time.",
                          <<>>))
          [] booked # {} /\ CalendarDeleteFails(ev, calFails) ->
                Outcome(w, FALSE,
                    Reply("Failed to cancel the calendar event. Please try again.", <<>>))
          [] OTHER ->
                Outcome(
                    World([i \in DOMAIN w.db |->
                              IF i \in all
                              THEN OpenedRow(w.db[i])
                              ELSE w.db[i]],
                          w.calendar \ {ev}),
                    TRUE,
                    Reply("Your appointment with {doctor} at {time} has been successfully cancelled.",
                          <<doctor, Format12(dt.hour)>>))

(***************************************************************************)
(* services/schedule_handler.py                                            *)
(***************************************************************************)
\* a.DateTime < b.DateTime
Before(a, b) == a.day < b.day \/ (a.day = b.day /\ a.hour < b.hour)

\* ORDER BY DateTime: the rows of S, earliest first
RECURSIVE OrderByDateTime(_, _)
OrderByDateTime(d, S) ==
    IF S = {} THEN <<>>
    ELSE LET first == CHOOSE i \in S :
                        \A j \in S : Before(d[i], d[j])
                                     \/ (~Before(d[j], d[i]) /\ i <= j)
         IN  <<first>> \o OrderByDateTime(d, S \ {first})

\* DoctorExists: SELECT DISTINCT Doctor ... WHERE LOWER(Doctor) = LOWER(?)
DoctorExists(d, name) == \E i \in DOMAIN d : Lower(d[i].doctor) = Lower(name)

Slots(slots, exists) == [slots |-> slots, doctor_exists |-> exists]
List(items) == [t |-> "list", items |-> items]

\* get_available_slots: (slots, doctor_exists); doctor_exists is "True",
\* "False" or "None"; slots is None on any error
get_available_slots(d, start, end, doctor, dbFails) ==
    LET inRange == {i \in DOMAIN d : /\ d[i].status = "Open"
                                     /\ ~Before(d[i], start)
                                     /\ Before(d[i], end)}
        times(S) == LET o == OrderByDateTime(d, S)
                    IN  List([k \in 1..Len(o) |-> Format12(d[o[k]].hour)])
    IN  CASE dbFails -> Slots(None, "None")
          [] ~dbFails /\ ~Truthy(doctor) -> Slots(times(inRange), "None")
          [] ~dbFails /\ Truthy(doctor) /\ doctor.t # "str" -> Slots(None, "None")
          [] OTHER ->
                IF ~DoctorExists(d, Strip(doctor.s))
                THEN Slots(List(<<>>), "False")
                ELSE Slots(times({i \in inRange :
                                    Lower(d[i].doctor) = Lower(Strip(doctor.s))}),
                           "True")

(***************************************************************************)
(* The chat handler (web_speech_api_version/dialogflow_version/app.py).    *)
(* A request: the session id, the NLU result (intent display name,         *)
(* parameters 'doctor' and 'date-time') and the fault the turn meets:      *)
(* "nlu" (detect_intent_texts returns None), "db1" / "db2" (the first /    *)
(* second database call of the turn raises), "cal" (the calendar call      *)
(* raises), "none".                                                        *)
(***************************************************************************)
ListIntents == {"List Schedules", "List Schedules - provide doctor",
                "List Schedules - provide datetime"}
BookIntents == {"Book Schedule", "Book Schedule - provide doctor",
                "Book Schedule - provide datetime"}
CancelIntents == {"Cancel Appointment", "Cancel Appointment - provide doctor",
                  "Cancel Appointment - provide datetime"}
\* the names line 74 refuses to intercept
PrimaryIntents == {"List Schedules", "Book Schedule", "Cancel Appointment"}

\* a literal string of the program
Lit(text) == [t |-> "str", lit |-> text]

\* AgentReply, replaced by a text of the handler's own
AgentReplyOwn == Reply("I'm not sure how to help with that.", <<>>)

\* dialogflow_response.fulfillment_text
AgentReply == Reply("{fulfillment_text}", <<>>)

\* a blocking call of a service, recorded in the order it is made
CallingTwice(calls, service) == Append(Append(calls, service), service)
Calling(calls, service) == Append(calls, service)

\* what a run of the handler leaves: the store, the database and calendar,
\* the reply, the services called, and whether an exception escaped
Result(store, w, reply, calls) ==
    [sessions |-> store, world |-> w, reply |-> reply, calls |-> calls, raised |-> FALSE]
Raised(store, w, calls) ==
    [sessions |-> store, world |-> w, reply |-> None, calls |-> calls, raised |-> TRUE]
\* the same run, labelled with the branch of chat() that produced it
Via(branch, res) ==
    [sessions |-> res.sessions, world |-> res.world, reply |-> res.reply,
     calls |-> res.calls, raised |-> res.raised, branch |-> branch]

\* x.strip() or None, for a str parameter
StripOrNone(v) == IF Strip(v.s) # <<>> THEN Str(Strip(v.s)) ELSE None

\* dict(date_param) if hasattr(date_param, '__iter__') and not
\* isinstance(date_param, str) else date_param
ToDict(v) == IF v.t = "map" THEN Map(FALSE, v.m) ELSE v

\* start_dt.strftime('%B %d'), or "<start> to <end minus one day>"
DateStr(start, end) ==
    [t |-> "dates",
     days |-> IF end.day - start.day = 1 THEN <<start.day>>
              ELSE <<start.day, end.day - 1>>]

\* SlotListReply, a failed read answered like an empty list
SlotListReplyNoFailure(doctor, r, date_str) ==
    IF r.slots = None \/ r.slots.items = <<>>
    THEN Reply("There are no available slots on {date_str}.", <<date_str>>)
    ELSE Reply("The following slots are open on {date_str}: {slots_str}.",
               <<date_str, r.slots>>)

\* the slot-list reply (lines 92-100 and 175-183)
SlotListReply(doctor, r, date_str) ==
    CASE r.slots = None ->
            Reply("I'm sorry, I'm having trouble reading the schedule file.", <<>>)
      [] r.slots # None /\ r.doctor_exists = "False" ->
            Reply("I'm sorry, but we don't have {doctor} in our clinic.", <<doctor>>)
      [] r.slots # None /\ r.doctor_exists # "False" /\ r.slots.items = <<>> ->
            IF Truthy(doctor)
            THEN Reply("{doctor} has no available slots on {date_str}.", <<doctor, date_str>>)
            ELSE Reply("There are no available slots on {date_str}.", <<date_str>>)
      [] OTHER ->
            IF Truthy(doctor)
            THEN Reply("{doctor} has the following open slots on {date_str}: {slots_str}.",
                       <<doctor, date_str, r.slots>>)
            ELSE Reply("The following slots are open on {date_str}: {slots_str}.",
                       <<date_str, r.slots>>)

\* AfterSlotQuery, keeping the context
AfterSlotQueryKeep(store, sid) == store

\* lines 102, 185: the context is deleted once the slot query was answered
AfterSlotQuery(store, sid) == clear_session(store, sid)

\* OnDateError, deleting the context
OnDateErrorClear(store, sid) == clear_session(store, sid)

\* lines 105-108, 187-191: a date that did not resolve leaves the context alone
OnDateError(store, sid) == store

\* OnUnknownDoctor, keeping the context
OnUnknownDoctorKeep(store, sid) == store

\* line 155: a list turn naming a doctor no row carries deletes the context
OnUnknownDoctor(store, sid) == clear_session(store, sid)

\* FollowUpDoctor, forgetting the remembered doctor
FollowUpDoctorForgotten(session) == None

\* line 82: the doctor remembered by the list turn that asked for the date
FollowUpDoctor(session) == DictGet(session, "schedule_doctor")

\* lines 81-108: the answer to the pending list question
FollowUpList(store, w, req, calls) ==
    LET doctor == FollowUpDoctor(store[req.sid])
        range == parse_date_range_param(req.date)
        r == get_available_slots(w.db, range.start, range.end, doctor, req.fault = "db1")
    IN  IF range.start = None \/ range.end = None
        THEN Result(OnDateError(store, req.sid), w,
                Reply("I couldn't understand that date. Please try again (e.g., 'tomorrow' or 'October 25th').",
                      <<>>),
                calls)
        ELSE Result(AfterSlotQuery(store, req.sid), w,
                SlotListReply(doctor, r, DateStr(range.start, range.end)),
                Calling(calls, "get_available_slots"))

\* ListIsNew, keeping the context of a standing list flow
ListIsNewUnlessStanding(session) ==
    DictGet(session, "awaiting_info") # Lit("list_schedules_date")

\* line 131: a list turn clears the context, whatever it holds
ListIsNew(session) == TRUE

\* lines 129-191
ListBranch(store, w, req, calls) ==
    LET sid == req.sid
        s0 == IF ListIsNew(store[sid]) THEN clear_session(store, sid) ELSE store
        s1 == update_session(s0, sid, "awaiting_info", Lit("list_schedules_date"))
        doctor == IF req.doctor.t = "str" THEN StripOrNone(req.doctor) ELSE req.doctor
        date_param == IF Truthy(req.date) THEN ToDict(req.date) ELSE req.date
        named == Truthy(doctor)
        calls1 == IF named THEN Calling(calls, "doctor_exists") ELSE calls
        s2 == IF named THEN update_session(s1, sid, "schedule_doctor", doctor) ELSE s1
        range == parse_date_range_param(date_param)
        r == get_available_slots(w.db, range.start, range.end, doctor,
                                 req.fault = (IF named THEN "db2" ELSE "db1"))
    IN  CASE named /\ (req.fault = "db1" \/ doctor.t # "str") ->
                Raised(s1, w, calls1)
          [] named /\ req.fault # "db1" /\ doctor.t = "str" /\ ~DoctorExists(w.db, doctor.s) ->
                Result(OnUnknownDoctor(s1, sid), w,
                    Reply("I'm sorry, but we don't have {doctor} in our clinic.", <<doctor>>),
                    calls1)
          [] OTHER ->
                IF ~Truthy(date_param)
                THEN Result(s2, w,
                        IF ~named
                        THEN Reply("For which date would you like to check the schedule?", <<>>)
                        ELSE Reply("For which date would you like to check {doctor}'s schedule?",
                                   <<doctor>>),
                        calls1)
                ELSE IF range.start = None \/ range.end = None
                THEN Result(OnDateError(s2, sid), w,
                        Reply("I couldn't understand the date you mentioned. Please try again.",
                              <<>>),
                        calls1)
                ELSE Result(AfterSlotQuery(s2, sid), w,
                        SlotListReply(doctor, r, DateStr(range.start, range.end)),
                        Calling(calls1, "get_available_slots"))

\* ClearDatetime, dropping the whole context instead
ClearDatetimeWhole(store, sid, key) == clear_session(store, sid)

\* lines 246, 252, 300: only the stored date-time is dropped
ClearDatetime(store, sid, key) == update_session(store, sid, key, None)

\* OnParseError, deleting the whole context
OnParseErrorClear(store, sid, key) == clear_session(store, sid)

\* lines 254-258, 302-306: appointment_dt is None, .replace raises, and the
\* handler drops only the stored date-time
OnParseError(store, sid, key) == update_session(store, sid, key, None)

\* AfterService, deleting the context on failure too
AfterServiceAlways(store, sid, success) == clear_session(store, sid)

\* lines 242-243, 297-298: the context is deleted once the service succeeded
AfterService(store, sid, success) == IF success THEN clear_session(store, sid) ELSE store

\* OnSlotError, treating the failure like a conflict
OnSlotErrorKeep(store, sid) == update_session(store, sid, "datetime", None)

\* line 249: a failed status check deletes the whole context
OnSlotError(store, sid) == clear_session(store, sid)

\* BookIsNew, keeping the context of a standing cancel flow
BookIsNewUnlessCancelling(session) ==
    ~Truthy(DictGet(session, "booking_flow")) /\ ~Truthy(DictGet(session, "cancel_flow"))

\* BookIsNew, never clearing
BookIsNewNever(session) == FALSE

\* line 208: a book turn starts a new flow unless booking_flow is set
BookIsNew(session) == ~Truthy(DictGet(session, "booking_flow"))

\* BookMerge, storing empty parameters as well
BookMergeOverwriting(store, sid, doctor_param, date_param) ==
    update_session(update_session(store, sid, "doctor", doctor_param),
                   sid, "datetime", date_param)

\* lines 215-218: this turn's parameters are merged into the stored context
BookMerge(store, sid, doctor_param, date_param) ==
    LET a == IF Truthy(doctor_param)
             THEN update_session(store, sid, "doctor", doctor_param) ELSE store
    IN  IF Truthy(date_param) THEN update_session(a, sid, "datetime", date_param) ELSE a

\* lines 221-222: `session` is the dict get_session returned at line 51.  When
\* line 209 removed that dict from the store, the updates of lines 211-218
\* went to a new dict and `session` still names the old one.
BookSessionRead(old, store, sid, cleared) == IF cleared THEN old ELSE store[sid]

\* Bookable, taking every status but 'booked' for an open slot
BookableUnlessBooked(slot_status) == slot_status # "booked"

\* line 238 (app.py line 128 of the LLM variant): only an available slot is booked
Bookable(slot_status) == slot_status = "available"

\* lines 194-258
BookBranch(store, w, req, calls) ==
    LET sid == req.sid
        session0 == store[sid]
        doctor_param == IF req.doctor.t = "str" THEN StripOrNone(req.doctor) ELSE None
        date_param == IF Truthy(req.date) THEN ToDict(req.date) ELSE req.date
        new == BookIsNew(session0)
        s1 == IF new THEN clear_session(store, sid) ELSE store
        s2 == update_session(s1, sid, "booking_flow", True)
        s3 == update_session(s2, sid, "awaiting_info", Lit("book_schedule_datetime"))
        s4 == BookMerge(s3, sid, doctor_param, date_param)
        session == BookSessionRead(session0, s4, sid, new)
        doctor == DictGet(session, "doctor")
        date == DictGet(session, "datetime")
        appointment_dt == parse_datetime_param(date)
        slot_status == validate_slot(w.db, doctor, appointment_dt, req.fault = "db1")
        calls1 == Calling(calls, "validate_slot")
        booking == book_appointment(w, doctor, appointment_dt,
                                    req.fault = "db2", req.fault = "cal")
        when == <<Format12(appointment_dt.hour), [t |-> "dates", days |-> <<appointment_dt.day>>]>>
    IN  CASE ~Truthy(doctor) ->
                Result(s4, w,
                    Reply("Which doctor would you like to book an appointment with?", <<>>),
                    calls)
          [] Truthy(doctor) /\ ~Truthy(date) ->
                Result(s4, w,
                    Reply("What date and time would you like to see {doctor}?", <<doctor>>),
                    calls)
          [] Truthy(doctor) /\ Truthy(date) /\ appointment_dt = None ->
                Result(OnParseError(s4, sid, "datetime"), w,
                    Reply("I couldn't understand the date and time. Please specify when you'd like the appointment (e.g., 'tomorrow at 1:00 PM').",
                          <<>>),
                    calls)
          [] OTHER ->
                CASE Bookable(slot_status) ->
                        Result(AfterService(s4, sid, booking.success),
                               booking.world, booking.message,
                               Calling(calls1, "book_appointment"))
                  [] ~Bookable(slot_status) /\ slot_status = "booked" ->
                        Result(ClearDatetime(s4, sid, "datetime"), w,
                            Reply("Sorry, this slot is already booked. {doctor} is not available at {when}. Please choose another time.",
                                  <<doctor>> \o when),
                            calls1)
                  [] ~Bookable(slot_status) /\ slot_status = "error" ->
                        Result(OnSlotError(s4, sid), w,
                            Reply("An error occurred while checking the schedule. Please try again.",
                                  <<>>),
                            calls1)
                  [] OTHER ->
                        Result(ClearDatetime(s4, sid, "datetime"), w,
                            Reply("Sorry, {doctor} doesn't have a slot at {when}. Please choose another time.",
                                  <<doctor>> \o when),
                            calls1)

\* CancelIsNew, never clearing
CancelIsNewNever(session) == FALSE

\* line 263: a cancel turn starts a new flow unless cancel_flow is set
CancelIsNew(session) == ~Truthy(DictGet(session, "cancel_flow"))

\* lines 270-277
CancelMerge(store, sid, doctor, date_param) ==
    LET a == IF doctor.t = "str" /\ Strip(doctor.s) # <<>>
             THEN update_session(store, sid, "cancel_doctor", Str(Strip(doctor.s)))
             ELSE store
    IN  IF Truthy(date_param)
        THEN update_session(a, sid, "cancel_datetime", ToDict(date_param)) ELSE a

\* lines 260-306
CancelBranch(store, w, req, calls) ==
    LET sid == req.sid
        session0 == store[sid]
        new == CancelIsNew(session0)
        s1 == IF new THEN clear_session(store, sid) ELSE store
        s2 == update_session(s1, sid, "cancel_flow", True)
        s3 == update_session(s2, sid, "awaiting_info", Lit("cancel_schedule_datetime"))
        s4 == CancelMerge(s3, sid, req.doctor, req.date)
        session == BookSessionRead(session0, s4, sid, new)
        doctor == DictGet(session, "cancel_doctor")
        date == DictGet(session, "cancel_datetime")
        appointment_dt == parse_datetime_param(date)
        cancelled == cancel_appointment_flow(w, doctor, appointment_dt,
                                             req.fault = "db1", req.fault = "cal")
    IN  CASE ~Truthy(doctor) ->
                Result(s4, w,
                    Reply("Which doctor's appointment would you like to cancel?", <<>>),
                    calls)
          [] Truthy(doctor) /\ ~Truthy(date) ->
                Result(s4, w,
                    Reply("What date and time is your appointment with {doctor}?", <<doctor>>),
                    calls)
          [] Truthy(doctor) /\ Truthy(date) /\ appointment_dt = None ->
                Result(OnParseError(s4, sid, "cancel_datetime"), w,
                    Reply("I couldn't understand the date and time. Please specify when your appointment is.",
                          <<>>),
                    calls)
          [] OTHER ->
                Result(IF cancelled.success
                       THEN AfterService(s4, sid, TRUE)
                       ELSE ClearDatetime(s4, sid, "cancel_datetime"),
                       cancelled.world, cancelled.message,
                       Calling(calls, "cancel_appointment_flow"))

\* Reprompt, passing the agent's reply through always
RepromptNever(awaiting) == AgentReply

\* lines 311-318: the question of the pending flow is asked again; without a
\* pending flow agent_reply keeps the agent's fulfillment text
Reprompt(awaiting) ==
    CASE awaiting = Lit("list_schedules_date") ->
            Reply("Sorry, I didn't catch that. What date were you interested in?", <<>>)
      [] awaiting = Lit("book_schedule_datetime") ->
            Reply("Sorry, I missed that. What was the doctor or time you wanted to book?", <<>>)
      [] awaiting = Lit("cancel_schedule_datetime") ->
            Reply("Sorry, I didn't get that. What was the doctor or time for the cancellation?",
                  <<>>)
      [] OTHER -> AgentReply

\* lines 309-318
FallbackBranch(store, w, req, calls) ==
    Result(store, w, Reprompt(DictGet(store[req.sid], "awaiting_info")), calls)

\* lines 127-318: dispatch on the intent name
Dispatch(store, w, req, intent_name, calls) ==
    CASE intent_name \in ListIntents -> Via("list", ListBranch(store, w, req, calls))
      [] intent_name \in BookIntents -> Via("book", BookBranch(store, w, req, calls))
      [] intent_name \in CancelIntents -> Via("cancel", CancelBranch(store, w, req, calls))
      [] OTHER -> Via("fallback", FallbackBranch(store, w, req, calls))

\* NoResponse, deleting the context as the outermost handler does
NoResponseClearing(store, w, sid, calls) ==
    Result(clear_session(store, sid), w,
        Reply("I'm having trouble connecting. Please try again.", <<>>), calls)

\* lines 53-54: detect_intent_texts returned None
NoResponse(store, w, sid, calls) ==
    Result(store, w, Reply("I'm having trouble connecting. Please try again.", <<>>), calls)

\* Intercepts, without the exclusion of the primary intents
InterceptsAnyIntent(awaiting_info, req) ==
    /\ Truthy(awaiting_info)
    /\ (Truthy(req.date) \/ Truthy(req.doctor))

\* line 74: the utterance is taken as the answer to the pending question
Intercepts(awaiting_info, req) ==
    /\ Truthy(awaiting_info)
    /\ (Truthy(req.date) \/ Truthy(req.doctor))
    /\ req.intent \notin PrimaryIntents

\* lines 111-124: the follow-up's parameters are stored and the intent forced
FollowUpMerge(store, sid, doctor_key, date_key, doctor_param, date_param) ==
    LET a == IF Truthy(doctor_param)
             THEN update_session(store, sid, doctor_key, doctor_param) ELSE store
    IN  IF Truthy(date_param) THEN update_session(a, sid, date_key, date_param) ELSE a

\* lines 320-325: the outermost handler
InternalError(res, sid) ==
    [res EXCEPT !.sessions = clear_session(@, sid),
                !.reply = Reply("I'm sorry, I encountered an internal error. Please try again.",
                                <<>>)]

\* line 48: the id of the request, or a generated one when it carries none
RequestSessionId(store, request) ==
    IF request.sid # NoSessionId THEN request.sid ELSE uuid4(DOMAIN store)

\* line 324: the outermost handler evaluates the same expression again, and
\* draws another id when the request carries none
HandlerSessionId(store, request, session_id) ==
    IF request.sid # NoSessionId THEN request.sid ELSE uuid4(DOMAIN store \cup {session_id})

\* the run with the id it worked under (sid) and the id it returns (line 327)
Returned(res, sid, session_id) ==
    [sessions |-> res.sessions, world |-> res.world, reply |-> res.reply,
     calls |-> res.calls, raised |-> res.raised, branch |-> res.branch,
     sid |-> sid, session_id |-> session_id]

\* lines 45-327: one run of chat()
chat(store, w, request) ==
    LET sid == RequestSessionId(store, request)
        req == [request EXCEPT !.sid = sid]
        calls == <<"detect_intent_texts">>
        s1 == get_session(store, sid)
        awaiting_info == DictGet(s1[sid], "awaiting_info")
        doctor_param == IF req.doctor.t = "str" THEN StripOrNone(req.doctor) ELSE req.doctor
        res ==
            CASE req.fault = "nlu" ->
                    Via("no_response", NoResponse(s1, w, sid, calls))
              [] req.fault # "nlu" /\ ~Intercepts(awaiting_info, req) ->
                    Dispatch(s1, w, req, req.intent, calls)
              [] OTHER ->
                    CASE awaiting_info = Lit("list_schedules_date") /\ Truthy(req.date) ->
                            Via("followup_list", FollowUpList(s1, w, req, calls))
                      [] awaiting_info = Lit("book_schedule_datetime") ->
                            Dispatch(FollowUpMerge(s1, sid, "doctor", "datetime",
                                                   doctor_param, req.date),
                                     w, req, "Book Schedule", calls)
                      [] awaiting_info = Lit("cancel_schedule_datetime") ->
                            Dispatch(FollowUpMerge(s1, sid, "cancel_doctor", "cancel_datetime",
                                                   doctor_param, req.date),
                                     w, req, "Cancel Appointment", calls)
                      [] OTHER -> Dispatch(s1, w, req, req.intent, calls)
        handler_sid == HandlerSessionId(store, request, sid)
    IN  IF res.raised
        THEN Returned(InternalError(res, handler_sid), sid, handler_sid)
        ELSE Returned(res, sid, sid)

(***************************************************************************)
(* Requests                                                                *)
(***************************************************************************)
\* the intents a request may carry: each family's own name, one of its
\* sub-intents (the two are handled alike on every line), and a fallback
Intents == {"List Schedules", "List Schedules - provide datetime",
            "Book Schedule", "Book Schedule - provide datetime",
            "Cancel Appointment", "Cancel Appointment - provide datetime",
            "Default Fallback Intent"}

DoctorParams == {Str(<<>>), Str(<<" ">>), Str(Lee), Str(<<" ", "L", "e", "e">>),
                 Str(Zed), Struct}

DateParams ==
    {Str(<<>>),
     IsoStr(1, 13, FALSE),
     IsoStr(1, 14, TRUE),
     NotIso,
     Map(TRUE, [startDate |-> IsoStr(1, 0, FALSE), endDate |-> IsoStr(3, 0, FALSE)])}

Faults == {"none", "db1", "db2", "cal"}

\* a request whose NLU call fails carries no intent and no parameters
Requests ==
    [sid : SessionIds, intent : Intents, doctor : DoctorParams, date : DateParams,
     fault : Faults]
    \cup [sid : SessionIds, intent : {""}, doctor : {Str(<<>>)}, date : {Str(<<>>)},
          fault : {"nlu"}]

NoTurn == [t |-> "none"]

\* the callers of book_appointment that may run at the same time (two requests
\* served by two threads), and a caller that has not called yet
Callers == {1, 2}
Idle == [pc |-> "idle", doctor |-> Str(<<>>), dt |-> DateTime(0, 0), row |-> 0,
         event |-> 0, success |-> FALSE, message |-> Reply("", <<>>)]

(***************************************************************************)
(* The LLM variant (whisper_version/llm_version): llm/llm_manager_OpenAI   *)
(* and app.py.  One LLMManager serves every request of the process.  A     *)
(* message of its conversation carries, besides role and content, the      *)
(* conversation whose request put it there (sender); the code keeps no     *)
(* such record, the field only traces where a message came from.           *)
(***************************************************************************)
Message(role, content, sender) == [role |-> role, content |-> content, sender |-> sender]

\* generate_initial_context(): the system prompt, rebuilt on every turn
generate_initial_context == Message("system", Reply("{system_prompt}", <<>>), 0)

\* LLMManager.__init__
LLMManager == [conversation |-> <<generate_initial_context>>, active_intent |-> None]

\* trim_history: the system message, then the messages with content; every
\* message of the model is far below max_tokens, so none is cut off
trim_history(history) ==
    LET first_is_system == history # <<>> /\ history[1].role = "system"
        rest == IF first_is_system THEN Tail(history) ELSE history
    IN  <<IF first_is_system THEN history[1] ELSE generate_initial_context>>
        \o SelectSeq(rest, LAMBDA m : m.content.msg # "")

\* what the extraction completion may answer, already through json.loads:
\* None stands for a key the answer does not carry
Extractions ==
    [type : {"list", "book", "cancel", "chat"},
     doctor : {Str(<<>>), Str(Lee)},
     datetime : {Str(<<>>), IsoStr(1, 13, FALSE), IsoStr(1, 14, FALSE), NotIso},
     is_confirmation : {True, False, None}]
\* structured when the completion or json.loads raises
ExtractionFailed ==
    [type |-> "", doctor |-> Str(<<>>), datetime |-> Str(<<>>), is_confirmation |-> None]

\* dateparser.parse and strftime: a parsable date is rewritten as a naive ISO
\* string with a clock reading, any other value is left as it is
Reformatted(date) ==
    IF Truthy(date) /\ FromIso(date) # None
    THEN IsoStr(date.day, IF date.hour = NoTime THEN 0 ELSE date.hour, FALSE)
    ELSE date

\* the reply process_query gives a list request
ListReply(d, doctor, date, dbFails) ==
    LET start_dt == FromIso(date)
        r == get_available_slots(d, start_dt, DateTime(start_dt.day + 1, start_dt.hour),
                                 doctor, dbFails)
    IN  CASE ~Truthy(doctor) ->
                Reply("Which doctor would you like me to check availability for?", <<>>)
          [] Truthy(doctor) /\ (~Truthy(date) \/ start_dt = None) ->
                Reply("Could you clarify the date or day you'd like me to check?", <<>>)
          [] OTHER ->
                CASE r.slots # None /\ r.slots.items # <<>> ->
                        Reply("{doctor} has available slots at {slots}.", <<doctor, r.slots>>)
                  [] (r.slots = None \/ r.slots.items = <<>>) /\ r.doctor_exists = "False" ->
                        Reply("Sorry, we don't have {doctor} in our clinic.", <<doctor>>)
                  [] OTHER ->
                        Reply("Sorry, {doctor} has no available slots at that time.", <<doctor>>)

\* LLMManager.process_query(query), the extraction answering structured.
\* raised: datetime.fromisoformat of line 276 or 285 raises, and the call
\* ends before the assistant message is saved
process_query(mgr, d, query, sender, structured, dbFails) ==
    LET history == Append([mgr.conversation EXCEPT ![1] = generate_initial_context],
                          Message("user", query, sender))
        doctor == structured.doctor
        date == Reformatted(structured.datetime)
        is_confirmation == IF structured.is_confirmation = None
                           THEN False ELSE structured.is_confirmation
        type == structured.type
        asks == Truthy(doctor) /\ ~Truthy(is_confirmation)
        raises == /\ type \in {"book", "cancel"}
                  /\ asks /\ Truthy(date) /\ FromIso(date) = None
        time_str == IF Truthy(date) /\ FromIso(date) # None
                    THEN Format12(FromIso(date).hour) ELSE None
        reply ==
            CASE type = "list" -> ListReply(d, doctor, date, dbFails)
              [] type = "book" /\ ~Truthy(doctor) ->
                    Reply("Which doctor would you like to book an appointment with?", <<>>)
              [] type = "book" /\ Truthy(doctor) /\ ~Truthy(date) ->
                    Reply("When would you like to see {doctor}?", <<doctor>>)
              [] type = "book" /\ Truthy(doctor) /\ Truthy(date) /\ asks ->
                    Reply("Just to confirm, you'd like to book an appointment with {doctor} at {time_str}. Should I proceed?",
                          <<doctor, time_str>>)
              [] type = "cancel" /\ ~Truthy(doctor) ->
                    Reply("Which doctor's appointment would you like to cancel?", <<>>)
              [] type = "cancel" /\ asks ->
                    Reply("Just to confirm, you'd like to cancel your appointment with {doctor}{at time_str}. Should I proceed?",
                          <<doctor, time_str>>)
              [] type \in {"book", "cancel"} /\ Truthy(doctor) /\ ~asks
                    /\ (type = "book" => Truthy(date)) ->
                    Reply("", <<>>)
              [] OTHER -> Reply("{completion}", <<>>)
        queried == type = "list" /\ Truthy(doctor) /\ Truthy(date) /\ FromIso(date) # None
    IN  [llm |-> [mgr EXCEPT !.conversation =
                    IF raises THEN history
                    ELSE Append(history, Message("assistant", reply, sender))],
         raised |-> raises,
         input |-> trim_history(history),
         calls |-> IF queried THEN Calling(<<"process_query">>, "get_available_slots")
                   ELSE <<"process_query">>,
         response |-> [type |-> type, doctor |-> doctor, datetime |-> date,
                       is_confirmation |-> is_confirmation, reply |-> reply]]

\* what a run of the LLM variant's handler leaves
LlmResult(pq, w, reply, status, calls) ==
    [llm |-> pq.llm, world |-> w, reply |-> reply, status |-> status, calls |-> calls,
     input |-> pq.input, response |-> pq.response]

\* the list branch of the handler
LlmList(pq, w, fault) ==
    LET doctor == pq.response.doctor
        datetime_param == pq.response.datetime
        dt == parse_datetime_param(datetime_param)
        r == get_available_slots(w.db, DateTime(dt.day, 0), DateTime(dt.day + 1, 0),
                                 doctor, fault = "db1")
    IN  CASE Truthy(doctor) /\ Truthy(datetime_param) /\ dt # None ->
                LlmResult(pq, w,
                    CASE r.slots = None ->
                            Reply("I'm having trouble reading the schedule.", <<>>)
                      [] r.slots # None /\ r.doctor_exists = "False" ->
                            Reply("I couldn't find {doctor} in our clinic records.", <<doctor>>)
                      [] r.slots # None /\ r.doctor_exists # "False" /\ r.slots.items = <<>> ->
                            Reply("{doctor} has no available slots on that day.", <<doctor>>)
                      [] OTHER ->
                            Reply("{doctor} has these open slots: {slots}.", <<doctor, r.slots>>),
                    200, Calling(pq.calls, "get_available_slots"))
          [] Truthy(doctor) /\ Truthy(datetime_param) /\ dt = None ->
                LlmResult(pq, w,
                    Reply("Could you clarify the date you'd like to check for {doctor}?",
                          <<doctor>>), 200, pq.calls)
          [] Truthy(doctor) /\ ~Truthy(datetime_param) ->
                LlmResult(pq, w,
                    Reply("For which date would you like to check {doctor}'s schedule?",
                          <<doctor>>), 200, pq.calls)
          [] ~Truthy(doctor) /\ Truthy(datetime_param) ->
                LlmResult(pq, w,
                    Reply("Which doctor's schedule would you like to check for that date?",
                          <<>>), 200, pq.calls)
          [] OTHER ->
                LlmResult(pq, w,
                    Reply("Please tell me which doctor and date you'd like to check availability for.",
                          <<>>), 200, pq.calls)

\* is_confirmation gates the call that commits a booking or a cancellation
ConfirmedAlways(is_confirmation) == TRUE
Confirmed(is_confirmation) == Truthy(is_confirmation)

\* the book branch of the handler
LlmBook(pq, w, fault) ==
    LET doctor == pq.response.doctor
        datetime_param == pq.response.datetime
        dt == parse_datetime_param(datetime_param)
        slot_status == validate_slot(w.db, doctor, dt, fault = "db1")
        booking == book_appointment(w, doctor, dt, fault = "db2", fault = "cal")
        checked == Calling(pq.calls, "validate_slot")
    IN  IF ~(Truthy(doctor) /\ Truthy(datetime_param) /\ dt # None)
        THEN LlmResult(pq, w, pq.response.reply, 200, pq.calls)
        ELSE CASE Bookable(slot_status) /\ Confirmed(pq.response.is_confirmation) ->
                    LlmResult(pq, booking.world,
                        IF booking.success THEN booking.message
                        ELSE Reply("Booking failed, please try again.", <<>>),
                        200, Calling(checked, "book_appointment"))
               [] Bookable(slot_status) /\ ~Confirmed(pq.response.is_confirmation) ->
                    LlmResult(pq, w, pq.response.reply, 200, checked)
               [] ~Bookable(slot_status) /\ slot_status = "booked" ->
                    LlmResult(pq, w,
                        Reply("Sorry, this slot is already booked for {doctor}.", <<doctor>>),
                        200, checked)
               [] ~Bookable(slot_status) /\ slot_status = "not_found" ->
                    LlmResult(pq, w,
                        Reply("{doctor} doesn't have availability at that time.", <<doctor>>),
                        200, checked)
               [] OTHER ->
                    LlmResult(pq, w,
                        Reply("Something went wrong while checking availability.", <<>>),
                        200, checked)

\* the cancel branch of the handler
LlmCancel(pq, w, fault) ==
    LET doctor == pq.response.doctor
        datetime_param == pq.response.datetime
        dt == parse_datetime_param(datetime_param)
        cancelled == cancel_appointment_flow(w, doctor, dt, fault = "db1", fault = "cal")
    IN  IF Truthy(doctor) /\ Truthy(datetime_param) /\ dt # None
           /\ Confirmed(pq.response.is_confirmation)
        THEN LlmResult(pq, cancelled.world,
                IF cancelled.success THEN cancelled.message
                ELSE Reply("No appointment found for {doctor} at {time}.",
                           <<doctor, Format12(dt.hour)>>),
                200, Calling(pq.calls, "cancel_appointment_flow"))
        ELSE LlmResult(pq, w, pq.response.reply, 200, pq.calls)

\* chat() of the LLM variant: the request's message, the conversation that
\* sent it, the extraction the completion answers and the fault the turn meets
llm_chat(mgr, w, message, sender, structured, fault) ==
    LET pq == process_query(mgr, w.db, message, sender, structured, fault = "db1")
    IN  CASE pq.raised ->
                LlmResult(pq, w, Reply("Internal error occurred, please try again.", <<>>),
                          500, pq.calls)
          [] ~pq.raised /\ pq.response.type = "list" -> LlmList(pq, w, fault)
          [] ~pq.raised /\ pq.response.type = "book" -> LlmBook(pq, w, fault)
          [] ~pq.raised /\ pq.response.type = "cancel" -> LlmCancel(pq, w, fault)
          [] OTHER -> LlmResult(pq, w, pq.response.reply, 200, pq.calls)

(***************************************************************************)
(* The state machine                                                       *)
(***************************************************************************)
Init ==
    /\ sessions = [x \in {} |-> EmptyDict]
    /\ db = InitDb
    /\ calendar = {}
    /\ turn = NoTurn
    /\ procs = [p \in Callers |-> Idle]
    /\ llm = LLMManager

\* POST /chat: the handler runs to its return
Chat ==
    /\ turn = NoTurn
    /\ \E req \in Requests :
        \E res \in {chat(sessions, World(db, calendar), req)} :
            /\ sessions' = res.sessions
            /\ db' = res.world.db
            /\ calendar' = res.world.calendar
            /\ turn' = [t |-> "turn", req |-> req,
                        before |-> [sessions |-> sessions, db |-> db, calendar |-> calendar],
                        branch |-> res.branch, reply |-> res.reply,
                        calls |-> res.calls, raised |-> res.raised,
                        sid |-> res.sid, session_id |-> res.session_id]
            /\ UNCHANGED <<procs, llm>>

\* the reply reaches the caller; the request is over
Respond ==
    /\ turn # NoTurn
    /\ turn' = NoTurn
    /\ UNCHANGED <<sessions, db, calendar, procs, llm>>

Next == Chat \/ Respond

Spec == Init /\ [][Next]_vars

(***************************************************************************)
(* Requests that carry no session id: every such turn works under an id    *)
(* generated for it.  At most MaxGenerated contexts of generated ids are   *)
(* in the store at a time.                                                 *)
(***************************************************************************)
MaxGenerated == 1

AnonymousRequests ==
    [sid : {NoSessionId}, intent : Intents, doctor : DoctorParams, date : DateParams,
     fault : Faults]
    \cup [sid : {NoSessionId}, intent : {""}, doctor : {Str(<<>>)}, date : {Str(<<>>)},
          fault : {"nlu"}]

\* POST /chat without 'session_id'
ChatAnonymous ==
    /\ turn = NoTurn
    /\ Cardinality(DOMAIN sessions) < MaxGenerated
    /\ \E req \in AnonymousRequests :
        \E res \in {chat(sessions, World(db, calendar), req)} :
            /\ sessions' = res.sessions
            /\ db' = res.world.db
            /\ calendar' = res.world.calendar
            /\ turn' = [t |-> "turn", req |-> req,
                        before |-> [sessions |-> sessions, db |-> db, calendar |-> calendar],
                        branch |-> res.branch, reply |-> res.reply,
                        calls |-> res.calls, raised |-> res.raised,
                        sid |-> res.sid, session_id |-> res.session_id]
            /\ UNCHANGED <<procs, llm>>

NextAnonymous == ChatAnonymous \/ Respond

SpecAnonymous == Init /\ [][NextAnonymous]_vars

(***************************************************************************)
(* book_appointment, statement by statement (booking_handler.py 32-110).   *)
(* Every caller has its own connection; a SELECT reads the committed       *)
(* table; the UPDATE takes the write lock of the database file and its     *)
(* change becomes visible at commit.                                       *)
(***************************************************************************)
\* the slots a caller may ask for
BookDoctors == {Str(Lee), Str(Kim)}
BookTimes == {DateTime(1, 13), DateTime(1, 14)}

\* the caller's record once book_appointment has returned
ReturnOf(proc, success, message) ==
    [proc EXCEPT !.pc = "done", !.success = success, !.message = message]

\* another caller holds the write lock (its UPDATE ran, its commit did not)
WriteLocked(p) == \E q \in Callers \ {p} : procs[q].pc = "commit"

\* book_appointment(doctor, appointment_datetime) is entered
BookCall(p) ==
    /\ procs[p].pc = "idle"
    /\ \E doctor \in BookDoctors, dt \in BookTimes :
            procs' = [procs EXCEPT ![p] = [@ EXCEPT !.pc = "select", !.doctor = doctor,
                                                     !.dt = dt]]
    /\ UNCHANGED <<sessions, db, calendar, turn, llm>>

\* lines 50-67: SELECT ... AND Status = 'Open', and the checks on its result
BookSelect(p) ==
    /\ procs[p].pc = "select"
    /\ LET open == {i \in MatchingRows(db, procs[p].doctor, procs[p].dt) :
                        db[i].status = "Open"}
       IN  procs' = [procs EXCEPT ![p] =
                CASE open = {} ->
                        ReturnOf(@, FALSE, Reply("This slot is no longer available.", <<>>))
                  [] open # {} /\ ~db[FirstOf(open)].email ->
                        ReturnOf(@, FALSE,
                            Reply("Could not find an email address for {doctor} in the database.",
                                  <<procs[p].doctor>>))
                  [] OTHER -> [@ EXCEPT !.pc = "insert", !.row = FirstOf(open)]]
    /\ UNCHANGED <<sessions, db, calendar, turn, llm>>

\* lines 70-83: the calendar event is created and its id kept
BookInsertEvent(p) ==
    /\ procs[p].pc = "insert"
    /\ LET id == FreshEventId(World(db, calendar))
       IN  /\ calendar' = calendar \cup {id}
           /\ procs' = [procs EXCEPT ![p] = [@ EXCEPT !.pc = "update", !.event = id]]
    /\ UNCHANGED <<sessions, db, turn, llm>>

\* lines 85-87: the calendar API refuses the insert
BookInsertFails(p) ==
    /\ procs[p].pc = "insert"
    /\ procs' = [procs EXCEPT ![p] =
            ReturnOf(@, FALSE, Reply("Failed to create calendar event: {cal_error}", <<>>))]
    /\ UNCHANGED <<sessions, db, calendar, turn, llm>>

\* lines 93-98: UPDATE ... SET Status = 'Booked', CalendarEventId = ? (no
\* condition on Status); sqlite waits while another connection holds the lock
BookUpdate(p) ==
    /\ procs[p].pc = "update"
    /\ ~WriteLocked(p)
    /\ procs' = [procs EXCEPT ![p] = [@ EXCEPT !.pc = "commit"]]
    /\ UNCHANGED <<sessions, db, calendar, turn, llm>>

\* lines 100-103: commit; the rows of the slot are Booked with this event
BookCommit(p) ==
    /\ procs[p].pc = "commit"
    /\ db' = [i \in DOMAIN db |->
                IF i \in MatchingRows(db, procs[p].doctor, procs[p].dt)
                THEN BookedRow(db[i], procs[p].event)
                ELSE db[i]]
    /\ procs' = [procs EXCEPT ![p] =
            ReturnOf(@, TRUE,
                Reply("Appointment booked successfully! The calendar for {doctor} has been updated.",
                      <<procs[p].doctor>>))]
    /\ UNCHANGED <<sessions, calendar, turn, llm>>

\* lines 105-107: a database statement raises sqlite3.Error (the file cannot
\* be opened or read, or the lock is not released in time); an open
\* transaction is dropped with the connection
BookDbError(p) ==
    /\ procs[p].pc \in {"select", "update", "commit"}
    /\ procs' = [procs EXCEPT ![p] =
            ReturnOf(@, FALSE,
                Reply("Failed to book appointment due to a database error.", <<>>))]
    /\ UNCHANGED <<sessions, db, calendar, turn, llm>>

NextConcurrent ==
    \E p \in Callers :
        \/ BookCall(p)
        \/ BookSelect(p)
        \/ BookInsertEvent(p)
        \/ BookInsertFails(p)
        \/ BookUpdate(p)
        \/ BookCommit(p)
        \/ BookDbError(p)

SpecConcurrent == Init /\ [][NextConcurrent]_vars

(***************************************************************************)
(* The booking service on its own: book_appointment and                    *)
(* cancel_appointment_flow called one after the other, in any order and    *)
(* with any arguments, on a table as imported.                             *)
(***************************************************************************)
\* the imported tables: every row with an address, or Kim's row without one
ServiceTables ==
    {InitDb, [InitDb EXCEPT ![3] = Row(Kim, 1, 13, "Open", 0, FALSE)]}
\* the names a call may carry: as stored, in another case, unknown
ServiceDoctors == {Str(Lee), Str(<<"l", "e", "e">>), Str(Kim), Str(Zed)}

InitService ==
    /\ sessions = [x \in {} |-> EmptyDict]
    /\ db \in ServiceTables
    /\ calendar = {}
    /\ turn = NoTurn
    /\ procs = [p \in Callers |-> Idle]
    /\ llm = LLMManager

\* the call is a cancellation that directly follows the successful booking
\* of the same doctor and time, on a slot that was Open without an event id
FollowsItsBooking(doctor, dt) ==
    /\ turn # NoTurn
    /\ turn.op = "book" /\ turn.success
    /\ turn.doctor = doctor /\ turn.dt = dt
    /\ \A i \in MatchingRows(turn.before.db, doctor, dt) :
            turn.before.db[i].status = "Open" /\ turn.before.db[i].event = 0

\* the record of a call: arguments, the table and calendar before it, result
CallRecord(op, doctor, dt, dbFails, calFails, round, base, out) ==
    [t |-> "call", op |-> op, doctor |-> doctor, dt |-> dt,
     dbFails |-> dbFails, calFails |-> calFails,
     before |-> [db |-> db, calendar |-> calendar],
     round |-> round, base |-> base,
     success |-> out.success, message |-> out.message]

ServiceBook ==
    \E doctor \in ServiceDoctors, dt \in BookTimes, dbFails \in BOOLEAN, calFails \in BOOLEAN :
        \E out \in {book_appointment(World(db, calendar), doctor, dt, dbFails, calFails)} :
            /\ db' = out.world.db
            /\ calendar' = out.world.calendar
            /\ turn' = CallRecord("book", doctor, dt, dbFails, calFails, FALSE,
                                  [db |-> db, calendar |-> calendar], out)
            /\ UNCHANGED <<sessions, procs, llm>>

ServiceCancel ==
    \E doctor \in ServiceDoctors, dt \in BookTimes, dbFails \in BOOLEAN, calFails \in BOOLEAN :
        \E out \in {cancel_appointment_flow(World(db, calendar), doctor, dt, dbFails, calFails)} :
            /\ db' = out.world.db
            /\ calendar' = out.world.calendar
            /\ turn' = CallRecord("cancel", doctor, dt, dbFails, calFails,
                                  FollowsItsBooking(doctor, dt),
                                  IF FollowsItsBooking(doctor, dt)
                                  THEN turn.before
                                  ELSE [db |-> db, calendar |-> calendar],
                                  out)
            /\ UNCHANGED <<sessions, procs, llm>>

\* the owner of the calendar deletes an event there (what the 404 of line
\* 155 answers to)
CalendarEventRemoved ==
    /\ \E e \in calendar : calendar' = calendar \ {e}
    /\ turn' = NoTurn
    /\ UNCHANGED <<sessions, db, procs, llm>>

NextService == ServiceBook \/ ServiceCancel \/ CalendarEventRemoved

SpecService == InitService /\ [][NextService]_vars

(***************************************************************************)
(* The session store used by two conversations at once                     *)
(* (services/session_manager.py).  Each caller works on its own session    *)
(* id; a call runs statement by statement, so the statements of the two    *)
(* callers interleave.  serial is the store the caller's own calls give    *)
(* when they run alone, one after the other.                               *)
(***************************************************************************)
KeyOf(c) == IF c = 1 THEN "s1" ELSE "s2"
StoreKeys == {"awaiting_info", "doctor"}
\* the value a caller writes under a key
StoreValue(k) == IF k = "awaiting_info" THEN Lit("book_schedule_datetime") ELSE Str(Lee)

StoreIdle ==
    [pc |-> "idle", op |-> "", key |-> "", value |-> None, created |-> FALSE,
     result |-> EmptyDict, serial |-> [x \in {} |-> EmptyDict]]

InitStore ==
    /\ sessions = [x \in {} |-> EmptyDict]
    /\ db = InitDb
    /\ calendar = {}
    /\ turn = NoTurn
    /\ procs = [c \in Callers |-> StoreIdle]
    /\ llm = LLMManager

\* get_session(id), update_session(id, key, value) or clear_session(id) is entered
StoreCall(c) ==
    /\ procs[c].pc = "idle"
    /\ \/ procs' = [procs EXCEPT ![c] =
                [@ EXCEPT !.pc = "check", !.op = "get", !.key = "", !.value = None,
                          !.created = FALSE,
                          !.serial = get_session(@, KeyOf(c))]]
       \/ \E k \in StoreKeys :
            procs' = [procs EXCEPT ![c] =
                [@ EXCEPT !.pc = "check", !.op = "update", !.key = k, !.value = StoreValue(k),
                          !.created = FALSE,
                          !.serial = update_session(@, KeyOf(c), k, StoreValue(k))]]
       \/ procs' = [procs EXCEPT ![c] =
                [@ EXCEPT !.pc = "check", !.op = "clear", !.key = "", !.value = None,
                          !.created = FALSE,
                          !.serial = clear_session(@, KeyOf(c))]]
    /\ UNCHANGED <<sessions, db, calendar, turn, llm>>

\* line 7 (`if session_id not in sessions`) and line 18 (`if session_id in
\* sessions`); get_session returns at line 9 when the context exists
StoreCheck(c) ==
    /\ procs[c].pc = "check"
    /\ LET present == KeyOf(c) \in DOMAIN sessions
       IN  procs' = [procs EXCEPT ![c] =
                CASE @.op = "clear" -> [@ EXCEPT !.pc = IF present THEN "delete" ELSE "idle"]
                  [] @.op # "clear" /\ ~present -> [@ EXCEPT !.pc = "create"]
                  [] @.op = "get" /\ present ->
                        [@ EXCEPT !.pc = "idle", !.result = sessions[KeyOf(c)]]
                  [] OTHER -> [@ EXCEPT !.pc = "set"]]
    /\ UNCHANGED <<sessions, db, calendar, turn, llm>>

\* lines 8-9: sessions[session_id] = {}
StoreCreate(c) ==
    /\ procs[c].pc = "create"
    /\ sessions' = get_session(sessions, KeyOf(c))
    /\ procs' = [procs EXCEPT ![c] =
            IF @.op = "get"
            THEN [@ EXCEPT !.pc = "idle", !.created = TRUE, !.result = EmptyDict]
            ELSE [@ EXCEPT !.pc = "set", !.created = TRUE]]
    /\ UNCHANGED <<db, calendar, turn, llm>>

\* line 14: session[key] = value
StoreSet(c) ==
    /\ procs[c].pc = "set"
    /\ sessions' = update_session(sessions, KeyOf(c), procs[c].key, procs[c].value)
    /\ procs' = [procs EXCEPT ![c] = [@ EXCEPT !.pc = "idle"]]
    /\ UNCHANGED <<db, calendar, turn, llm>>

\* line 19: del sessions[session_id]
StoreDelete(c) ==
    /\ procs[c].pc = "delete"
    /\ sessions' = clear_session(sessions, KeyOf(c))
    /\ procs' = [procs EXCEPT ![c] = [@ EXCEPT !.pc = "idle"]]
    /\ UNCHANGED <<db, calendar, turn, llm>>

NextStore ==
    \E c \in Callers :
        \/ StoreCall(c)
        \/ StoreCheck(c)
        \/ StoreCreate(c)
        \/ StoreSet(c)
        \/ StoreDelete(c)

SpecStore == InitStore /\ [][NextStore]_vars

(***************************************************************************)
(* The LLM variant's handler, serving the requests of two conversations    *)
(* one after the other.                                                    *)
(***************************************************************************)
\* the messages a history may hold before a turn is no longer taken
MaxHistory == 4
Conversations == {1, 2}
Utterances == {Reply("{message}", <<>>)}

\* POST /chat of the LLM variant: the handler runs to its return
LlmChat ==
    /\ turn = NoTurn
    /\ Len(llm.conversation) < MaxHistory
    /\ \E sender \in Conversations, message \in Utterances,
          structured \in Extractions \cup {ExtractionFailed}, fault \in Faults :
        \E res \in {llm_chat(llm, World(db, calendar), message, sender, structured, fault)} :
            /\ llm' = res.llm
            /\ db' = res.world.db
            /\ calendar' = res.world.calendar
            /\ turn' = [t |-> "llm", sender |-> sender, structured |-> structured,
                        fault |-> fault,
                        before |-> [db |-> db, calendar |-> calendar, llm |-> llm],
                        reply |-> res.reply, status |-> res.status, calls |-> res.calls,
                        input |-> res.input, response |-> res.response]
            /\ UNCHANGED <<sessions, procs>>

NextLlm == LlmChat \/ Respond

SpecLlm == Init /\ [][NextLlm]_vars

(***************************************************************************)
(* The list replies and the date-range resolution on their own: a list     *)
(* request answered in one turn, the same request answered in two turns    *)
(* (the doctor first, the date as a follow-up), and parse_date_range_param *)
(* applied to a date-time parameter of any shape.                          *)
(***************************************************************************)
\* tables the slot query reads: as imported, with a later slot stored ahead
\* of an earlier one, and without an open slot
QueryTables ==
    {InitDb,
     <<Row(Lee, 1, 15, "Open", 0, TRUE), Row(Lee, 1, 13, "Open", 0, TRUE),
       Row(Kim, 2, 9, "Open", 0, TRUE), Row(Lee, 1, 9, "Open", 0, TRUE)>>,
     <<Row(Lee, 1, 13, "Booked", 0, TRUE)>>}
QueryDoctors == {Str(<<>>), Str(Lee), Str(Kim), Str(Zed)}
\* the ISO strings a date-time parameter may carry
IsoInputs ==
    {IsoStr(1, NoTime, FALSE), IsoStr(1, 13, FALSE), IsoStr(1, 13, TRUE),
     IsoStr(2, NoTime, FALSE), IsoStr(3, 9, FALSE)}
\* the shapes parse_date_range_param may be handed
RangeInputs ==
    IsoInputs \cup {Str(<<>>), NotIso, None, Struct}
    \cup {Map(FALSE, [startDate |-> a, endDate |-> b]) : a, b \in IsoInputs \cup {NotIso}}
    \cup {Map(FALSE, [startDate |-> IsoStr(1, NoTime, FALSE)]),
          Map(FALSE, [date_time |-> IsoStr(1, 13, FALSE)]),
          Map(TRUE, [startDate |-> IsoStr(1, NoTime, FALSE),
                     endDate |-> IsoStr(2, NoTime, FALSE)])}
\* the date-time parameters the NLU client delivers to a list turn
ListDates ==
    IsoInputs \cup {NotIso}
    \cup {Map(TRUE, [startDate |-> a, endDate |-> b]) :
            a, b \in {IsoStr(1, NoTime, FALSE), IsoStr(2, NoTime, FALSE), IsoStr(3, 9, FALSE)}}

InitHelpers ==
    /\ sessions = [x \in {} |-> EmptyDict]
    /\ db \in QueryTables
    /\ calendar = {}
    /\ turn = NoTurn
    /\ procs = [p \in Callers |-> Idle]
    /\ llm = LLMManager

ListRequest(intent, doctor, date, fault) ==
    [sid |-> "s1", intent |-> intent, doctor |-> doctor, date |-> date, fault |-> fault]

\* a list request for doctor and date, answered in one turn and, where the
\* turn that names only the doctor ends awaiting the date, in two
ListTurns ==
    /\ turn = NoTurn
    /\ \E doctor \in QueryDoctors, date \in ListDates, queryFails \in BOOLEAN :
        LET w == World(db, calendar)
            fresh == get_session(sessions, "s1")
            fault1 == IF ~queryFails THEN "none" ELSE IF Truthy(doctor) THEN "db2" ELSE "db1"
            asked == ListBranch(fresh, w, ListRequest("List Schedules", doctor, Str(<<>>), "none"),
                                <<"detect_intent_texts">>)
            awaiting == "s1" \in DOMAIN asked.sessions
                        /\ DictGet(asked.sessions["s1"], "awaiting_info")
                            = Lit("list_schedules_date")
        IN  \E one \in {ListBranch(fresh, w, ListRequest("List Schedules", doctor, date, fault1),
                                   <<"detect_intent_texts">>)} :
            \E two \in {IF awaiting
                        THEN FollowUpList(asked.sessions, w,
                                ListRequest("List Schedules - provide datetime", Str(<<>>), date,
                                            IF queryFails THEN "db1" ELSE "none"),
                                <<"detect_intent_texts">>)
                        ELSE NoTurn} :
                turn' = [t |-> "lists", doctor |-> doctor, date |-> date,
                         queryFails |-> queryFails, one_shot |-> one, follow_up |-> two]
    /\ UNCHANGED <<sessions, db, calendar, procs, llm>>

\* parse_date_range_param(date_param) is called and returns
ResolveRange ==
    /\ turn = NoTurn
    /\ \E date_param \in RangeInputs :
        turn' = [t |-> "range", date_param |-> date_param,
                 range |-> parse_date_range_param(date_param)]
    /\ UNCHANGED <<sessions, db, calendar, procs, llm>>

NextHelpers == ListTurns \/ ResolveRange \/ Respond

SpecHelpers == InitHelpers /\ [][NextHelpers]_vars

(***************************************************************************)
(* A process serves one variant of the agent: the Dialogflow variant       *)
(* builds no LLMManager, the LLM variant builds one at start.              *)
(***************************************************************************)
InitVariants ==
    /\ sessions = [x \in {} |-> EmptyDict]
    /\ db = InitDb
    /\ calendar = {}
    /\ turn = NoTurn
    /\ procs = [p \in Callers |-> Idle]
    /\ llm \in {None, LLMManager}

NextVariants ==
    \/ llm = None /\ Chat
    \/ llm # None /\ LlmChat
    \/ Respond

SpecVariants == InitVariants /\ [][NextVariants]_vars

(***************************************************************************)
(* A user who, after any earlier turns of the conversation, keeps asking   *)
(* to book Lee's open slot: from some turn on every request carries a book *)
(* intent with the doctor and the date-time of that slot.  No call fails.  *)
(***************************************************************************)
\* the requests of the earlier turns
EarlierRequests ==
    [sid : SessionIds, intent : Intents, doctor : {Str(<<>>), Str(Lee)},
     date : {Str(<<>>), IsoStr(1, 14, TRUE), NotIso}, fault : {"none"}]

\* the slot asked for is Open
LeeSlotOpen ==
    \E i \in DOMAIN db : /\ db[i].doctor = Lee /\ db[i].day = 1 /\ db[i].hour = 13
                         /\ db[i].status = "Open"
\* the book intents and the shapes the slot's date-time arrives in
RepeatedRequests ==
    [sid : SessionIds, intent : BookIntents, doctor : {Str(Lee)},
     date : {IsoStr(1, 13, FALSE), IsoStr(1, 13, TRUE)}, fault : {"none"}]

\* POST /chat with a request of the earlier turns
EarlierChat ==
    /\ turn = NoTurn
    /\ \E req \in EarlierRequests :
        \E res \in {chat(sessions, World(db, calendar), req)} :
            /\ sessions' = res.sessions
            /\ db' = res.world.db
            /\ calendar' = res.world.calendar
            /\ turn' = [t |-> "turn", req |-> req,
                        before |-> [sessions |-> sessions, db |-> db, calendar |-> calendar],
                        branch |-> res.branch, reply |-> res.reply,
                        calls |-> res.calls, raised |-> res.raised,
                        sid |-> res.sid, session_id |-> res.session_id]
            /\ UNCHANGED <<procs, llm>>

\* POST /chat with the repeated booking request
BookAgain ==
    /\ turn = NoTurn
    /\ LeeSlotOpen
    /\ \E req \in RepeatedRequests :
        \E res \in {chat(sessions, World(db, calendar), req)} :
            /\ sessions' = res.sessions
            /\ db' = res.world.db
            /\ calendar' = res.world.calendar
            /\ turn' = [t |-> "turn", req |-> req,
                        before |-> [sessions |-> sessions, db |-> db, calendar |-> calendar],
                        branch |-> res.branch, reply |-> res.reply,
                        calls |-> res.calls, raised |-> res.raised,
                        sid |-> res.sid, session_id |-> res.session_id]
            /\ UNCHANGED <<procs, llm>>

NextPersistent == EarlierChat \/ BookAgain \/ Respond

\* the handler answers every request, and the user goes on sending requests:
\* a request can be sent exactly when no turn is open, and sending one opens a
\* turn, so weak fairness of sending is "always eventually a turn is open"
SpecPersistent ==
    /\ Init /\ [][NextPersistent]_vars
    /\ WF_vars(Respond)
    /\ []<>(turn # NoTurn)

(***************************************************************************)
(* Properties.  They speak about the turn just answered: its request, the  *)
(* store, table and calendar before it (turn.before) and after it.         *)
(***************************************************************************)
Answered == turn # NoTurn
\* the NLU call of the turn returned a result
Understood == Answered /\ turn.req.fault # "nlu"
\* turn.sid is the session id the turn worked under
PreSession ==
    IF turn.sid \in DOMAIN turn.before.sessions
    THEN turn.before.sessions[turn.sid] ELSE EmptyDict
PostStored == turn.sid \in DOMAIN sessions
PostSession == IF PostStored THEN sessions[turn.sid] ELSE EmptyDict
PreAwaiting == DictGet(PreSession, "awaiting_info")
Called(service) == \E i \in 1..Len(turn.calls) : turn.calls[i] = service
\* the doctor the request names, if it names one
NamedDoctor == turn.req.doctor.t = "str" /\ Strip(turn.req.doctor.s) # <<>>

AskDoctorMsg == "Which doctor would you like to book an appointment with?"
AskDateTimeMsg == "What date and time would you like to see {doctor}?"

\* C1: in a book turn the reply follows the merged session: the 'which
\* doctor' question only if no doctor is stored after the merge, the date/time
\* question (naming the stored doctor) only if a doctor is stored and no
\* datetime is; a fresh book intent naming a doctor and no datetime is
\* answered with the date/time question for that doctor.
C1_BookReplyFollowsMergedSession ==
    (Understood /\ turn.branch = "book") =>
        /\ turn.reply.msg = AskDoctorMsg => ~Truthy(DictGet(PostSession, "doctor"))
        /\ turn.reply.msg = AskDateTimeMsg =>
                /\ Truthy(DictGet(PostSession, "doctor"))
                /\ ~Truthy(DictGet(PostSession, "datetime"))
                /\ turn.reply.args = <<DictGet(PostSession, "doctor")>>
        /\ (/\ ~Truthy(DictGet(PreSession, "booking_flow"))
            /\ NamedDoctor
            /\ ~Truthy(turn.req.date))
           => turn.reply = Reply(AskDateTimeMsg, <<Str(Strip(turn.req.doctor.s))>>)

OtherFlowFields == {"cancel_flow", "cancel_doctor", "cancel_datetime", "schedule_doctor"}

\* C2: a book turn on a session whose booking_flow is not set leaves no
\* cancel_flow, cancel_doctor, cancel_datetime or schedule_doctor in the
\* stored session.
C2_FreshBookClearsPriorFields ==
    (Understood /\ turn.branch = "book" /\ ~Truthy(DictGet(PreSession, "booking_flow")))
        => /\ PostStored
           /\ DOMAIN PostSession \cap OtherFlowFields = {}

\* a book turn that found a pending cancel flow with its doctor and datetime
C2_Witness ==
    /\ Understood /\ turn.branch = "book"
    /\ {"cancel_flow", "cancel_doctor", "cancel_datetime"} \subseteq DOMAIN PreSession
    /\ Truthy(DictGet(PostSession, "booking_flow"))

\* C3: in every stored session at most one of booking flow, cancel flow and
\* list mode is active.
C3_AtMostOneFlow ==
    \A sid \in DOMAIN sessions :
        LET d == sessions[sid]
        IN  /\ ~(Truthy(DictGet(d, "booking_flow")) /\ Truthy(DictGet(d, "cancel_flow")))
            /\ DictGet(d, "awaiting_info") = Lit("list_schedules_date")
                 => (~Truthy(DictGet(d, "booking_flow")) /\ ~Truthy(DictGet(d, "cancel_flow")))

\* a cancel turn that took over a session in a booking flow with a stored doctor
C3_Witness ==
    /\ Understood /\ turn.branch = "cancel"
    /\ Truthy(DictGet(PreSession, "booking_flow"))
    /\ Truthy(DictGet(PreSession, "doctor"))
    /\ Truthy(DictGet(PostSession, "cancel_flow"))

\* the same request under the primary intent of the pending flow
AsPrimary(req, awaiting) ==
    [req EXCEPT !.intent = IF awaiting = Lit("book_schedule_datetime")
                           THEN "Book Schedule" ELSE "Cancel Appointment"]

\* C4: an intercepted follow-up to a pending book (cancel) question gives the
\* reply and the session state that the primary book (cancel) intent with the
\* same parameters gives from the same state.
C4_FollowUpEqualsPrimary ==
    (/\ Understood
     /\ PreAwaiting \in {Lit("book_schedule_datetime"), Lit("cancel_schedule_datetime")}
     /\ Intercepts(PreAwaiting, turn.req))
    => LET primary == chat(turn.before.sessions,
                           World(turn.before.db, turn.before.calendar),
                           AsPrimary(turn.req, PreAwaiting))
       IN  /\ turn.reply = primary.reply
           /\ sessions = primary.sessions

\* the rows of doctor `name` that are Open on the days start..end-1 of table d
OpenRowsOf(d, name, start, end) ==
    {i \in DOMAIN d : /\ d[i].doctor = name
                      /\ d[i].status = "Open"
                      /\ start.day <= d[i].day /\ d[i].day < end.day}
\* the sequence holds exactly the clock readings of the rows S of table d
ListsExactly(items, d, S) ==
    /\ Len(items) = Cardinality(S)
    /\ {items[k] : k \in 1..Len(items)} = {Format12(d[i].hour) : i \in S}

\* the session left by a list intent that named an existing doctor and no date
AwaitingDateFor(session) ==
    /\ DOMAIN session = {"awaiting_info", "schedule_doctor"}
    /\ session["awaiting_info"] = Lit("list_schedules_date")
    /\ Truthy(session["schedule_doctor"])

\* C5: after a list intent naming an existing doctor D without a date, a next
\* utterance with a non-primary intent and a resolvable date runs the slot
\* query for D over that date's range and ends the flow with a reply about D.
C5_ListFollowUpUsesRememberedDoctor ==
    (/\ Understood
     /\ AwaitingDateFor(PreSession)
     /\ turn.req.intent \notin PrimaryIntents
     /\ parse_date_range_param(turn.req.date).start # None
     /\ parse_date_range_param(turn.req.date).end # None)
    => LET D == PreSession["schedule_doctor"]
           range == parse_date_range_param(turn.req.date)
           rows == OpenRowsOf(turn.before.db, D.s, range.start, range.end)
       IN  /\ turn.calls = <<"detect_intent_texts", "get_available_slots">>
           /\ ~PostStored
           /\ turn.req.fault # "db1" =>
                /\ turn.reply.args[1] = D
                /\ IF rows = {}
                   THEN turn.reply.msg = "{doctor} has no available slots on {date_str}."
                   ELSE /\ turn.reply.msg =
                             "{doctor} has the following open slots on {date_str}: {slots_str}."
                        /\ ListsExactly(turn.reply.args[3].items, turn.before.db, rows)

\* the date answer lists Lee's open slot while another doctor has one that day
C5_Witness ==
    /\ Understood
    /\ AwaitingDateFor(PreSession)
    /\ PreSession["schedule_doctor"] = Str(Lee)
    /\ turn.branch = "followup_list"
    /\ turn.reply.msg = "{doctor} has the following open slots on {date_str}: {slots_str}."
    /\ \E i \in DOMAIN turn.before.db :
            turn.before.db[i].doctor = Kim /\ turn.before.db[i].status = "Open"

\* the request names no doctor (absent, blank or not a string handled as none)
NoDoctorNamed == turn.req.doctor.t = "str" /\ Strip(turn.req.doctor.s) = <<>>

\* C6 as stated: a list intent that arrives while awaiting_info is already
\* list_date does not reset the session; the remembered schedule_doctor is
\* retained, and used when the turn supplies only a date.
C6_StandingListKeepsDoctor ==
    (/\ Understood /\ turn.branch = "list"
     /\ AwaitingDateFor(PreSession)
     /\ NoDoctorNamed)
    => /\ (~Truthy(turn.req.date) \/ parse_date_range_param(ToDict(turn.req.date)).start = None)
            => DictGet(PostSession, "schedule_doctor") = PreSession["schedule_doctor"]
       /\ (parse_date_range_param(ToDict(turn.req.date)).start # None /\ turn.req.fault = "none")
            => (turn.reply.args # <<>> /\ turn.reply.args[1] = PreSession["schedule_doctor"])

\* C6 amended: every turn that runs the list branch resets the session first,
\* also when a list flow is standing: afterwards the stored session holds
\* only awaiting_info = list_date and the doctor named in this turn; a doctor
\* remembered from before is dropped, and a turn naming no doctor is answered
\* for all doctors.
C6_ListAlwaysResets ==
    (Understood /\ turn.branch = "list") =>
        /\ PostStored =>
            /\ DOMAIN PostSession \subseteq {"awaiting_info", "schedule_doctor"}
            /\ PostSession["awaiting_info"] = Lit("list_schedules_date")
            /\ "schedule_doctor" \in DOMAIN PostSession =>
                    (NamedDoctor /\ PostSession["schedule_doctor"] = Str(Strip(turn.req.doctor.s)))
        /\ NoDoctorNamed =>
            /\ "schedule_doctor" \notin DOMAIN PostSession
            /\ turn.reply.msg \in
                {"For which date would you like to check the schedule?",
                 "I couldn't understand the date you mentioned. Please try again.",
                 "I'm sorry, I'm having trouble reading the schedule file.",
                 "There are no available slots on {date_str}.",
                 "The following slots are open on {date_str}: {slots_str}."}

\* a list intent with only a date, on a session that remembers Lee, is
\* answered for all doctors
C6_Witness ==
    /\ Understood /\ turn.branch = "list"
    /\ AwaitingDateFor(PreSession)
    /\ NoDoctorNamed
    /\ turn.reply.msg = "The following slots are open on {date_str}: {slots_str}."

\* the flow a pending marker or a primary intent belongs to
FlowOfMarker(awaiting) ==
    CASE awaiting = Lit("list_schedules_date") -> "list"
      [] awaiting = Lit("book_schedule_datetime") -> "book"
      [] awaiting = Lit("cancel_schedule_datetime") -> "cancel"
      [] OTHER -> "none"
FlowOfIntent(intent) ==
    CASE intent \in ListIntents -> "list"
      [] intent \in BookIntents -> "book"
      [] intent \in CancelIntents -> "cancel"
      [] OTHER -> "none"
FlowFields(flow) ==
    CASE flow = "list" -> {"awaiting_info", "schedule_doctor"}
      [] flow = "book" -> {"awaiting_info", "booking_flow", "doctor", "datetime"}
      [] flow = "cancel" -> {"awaiting_info", "cancel_flow", "cancel_doctor", "cancel_datetime"}
      [] OTHER -> {}

\* C7: a primary intent that arrives while a different flow is pending is
\* not taken as a follow-up answer and abandons the pending flow: the stored
\* session afterwards holds only fields of the newly started flow.
C7_PrimaryIntentAbandonsOtherFlow ==
    (/\ Understood
     /\ turn.req.intent \in PrimaryIntents
     /\ FlowOfMarker(PreAwaiting) # "none"
     /\ FlowOfMarker(PreAwaiting) # FlowOfIntent(turn.req.intent))
    => /\ turn.branch = FlowOfIntent(turn.req.intent)
       /\ DOMAIN PostSession \subseteq FlowFields(FlowOfIntent(turn.req.intent))
       /\ PostStored => FlowOfMarker(PostSession["awaiting_info"]) = FlowOfIntent(turn.req.intent)

\* 'Cancel Appointment' with a doctor, while a booking with a stored doctor
\* and datetime is pending, starts a cancel flow
C7_Witness ==
    /\ Understood
    /\ turn.req.intent = "Cancel Appointment"
    /\ NamedDoctor
    /\ PreAwaiting = Lit("book_schedule_datetime")
    /\ {"doctor", "datetime"} \subseteq DOMAIN PreSession
    /\ PostStored
    /\ DOMAIN PostSession = {"awaiting_info", "cancel_flow", "cancel_doctor"}

BookedMsg ==
    "Sorry, this slot is already booked. {doctor} is not available at {when}. Please choose another time."
NoSlotMsg == "Sorry, {doctor} doesn't have a slot at {when}. Please choose another time."
NoAppointmentMsg ==
    "I couldn't find a booked appointment for that doctor at that specific time."
\* the doctor a flow has after this turn's parameters are merged: the one
\* the request names, else the stored one (an intercepted follow-up stores a
\* non-string doctor value as it is)
MergedDoctor(key) ==
    CASE NamedDoctor -> Str(Strip(turn.req.doctor.s))
      [] turn.req.doctor.t # "str" /\ Intercepts(PreAwaiting, turn.req) -> turn.req.doctor
      [] OTHER -> DictGet(PreSession, key)

\* C8: a conflict clears only the datetime: after the 'already booked' or 'no
\* such slot' reply of the book flow, and after the 'no booked appointment'
\* reply of the cancel flow, the stored datetime is empty while the doctor,
\* the flow flag and awaiting_info are kept.
C8_ConflictClearsOnlyDatetime ==
    /\ (Understood /\ turn.branch = "book" /\ turn.reply.msg \in {BookedMsg, NoSlotMsg})
        => /\ PostStored
           /\ DOMAIN PostSession = {"awaiting_info", "booking_flow", "doctor", "datetime"}
           /\ PostSession["datetime"] = None
           /\ Truthy(PostSession["doctor"])
           /\ PostSession["doctor"] = MergedDoctor("doctor")
           /\ PostSession["doctor"] = turn.reply.args[1]
           /\ PostSession["booking_flow"] = True
           /\ PostSession["awaiting_info"] = Lit("book_schedule_datetime")
    /\ (Understood /\ turn.branch = "cancel" /\ turn.reply.msg = NoAppointmentMsg)
        => /\ PostStored
           /\ DOMAIN PostSession =
                {"awaiting_info", "cancel_flow", "cancel_doctor", "cancel_datetime"}
           /\ PostSession["cancel_datetime"] = None
           /\ Truthy(PostSession["cancel_doctor"])
           /\ PostSession["cancel_doctor"] = MergedDoctor("cancel_doctor")
           /\ PostSession["cancel_flow"] = True
           /\ PostSession["awaiting_info"] = Lit("cancel_schedule_datetime")

\* a follow-up that only gives the time of Lee's booked slot: 'already booked'
C8_Witness ==
    /\ Understood /\ turn.branch = "book"
    /\ turn.reply.msg = BookedMsg
    /\ ~NamedDoctor
    /\ Truthy(turn.req.date)
    /\ DictGet(PostSession, "doctor") = Str(Lee)

\* the booking context the turn has once its parameters are merged
MergedBooking ==
    LET a == IF Truthy(MergedDoctor("doctor"))
             THEN DictSet(PreSession, "doctor", MergedDoctor("doctor"))
             ELSE PreSession
    IN  IF Truthy(turn.req.date) THEN DictSet(a, "datetime", ToDict(turn.req.date)) ELSE a
\* the slot check of the turn found the slot open
SlotWasAvailable ==
    /\ Understood /\ turn.branch = "book"
    /\ Called("validate_slot")
    /\ turn.req.fault # "db1"
    /\ Truthy(DictGet(PreSession, "booking_flow"))
    /\ DictGet(MergedBooking, "doctor").t = "str"
    /\ \E i \in DOMAIN turn.before.db :
        LET row == turn.before.db[i]
            dt == parse_datetime_param(MergedBooking["datetime"])
        IN  /\ Lower(row.doctor) = Lower(MergedBooking["doctor"].s)
            /\ row.day = dt.day /\ row.hour = dt.hour
            /\ row.status = "Open"
BookingFailed == turn.req.fault \in {"db2", "cal"}

\* C9: when a book turn has doctor and datetime and the slot is available,
\* book_appointment runs in that turn; on success the reply is its message
\* and the session is deleted; on failure the reply is its message and the
\* stored session is the merged booking context, unchanged.
C9_AvailableSlotIsBookedInTurn ==
    SlotWasAvailable =>
        /\ turn.calls = <<"detect_intent_texts", "validate_slot", "book_appointment">>
        /\ ~BookingFailed =>
            /\ turn.reply =
                Reply("Appointment booked successfully! The calendar for {doctor} has been updated.",
                      <<MergedBooking["doctor"]>>)
            /\ ~PostStored
            /\ db # turn.before.db
        /\ BookingFailed =>
            /\ turn.reply.msg \in {"Failed to book appointment due to a database error.",
                                   "Failed to create calendar event: {cal_error}"}
            /\ PostStored
            /\ PostSession = MergedBooking
            /\ DOMAIN PostSession = {"awaiting_info", "booking_flow", "doctor", "datetime"}
            /\ db = turn.before.db /\ calendar = turn.before.calendar

\* the calendar call of a booking fails: the context stays for a retry
C9_Witness ==
    /\ SlotWasAvailable
    /\ turn.req.fault = "cal"
    /\ Called("book_appointment")
    /\ PostStored

\* C10: when the slot-status check of a book turn fails on the database, the
\* reply is the generic error and nothing remains stored for the session id.
C10_SlotErrorClearsSession ==
    (/\ Understood /\ turn.branch = "book"
     /\ Called("validate_slot")
     /\ (turn.req.fault = "db1" \/ DictGet(MergedBooking, "doctor").t # "str"))
    => /\ turn.reply =
            Reply("An error occurred while checking the schedule. Please try again.", <<>>)
       /\ ~PostStored
       /\ turn.calls = <<"detect_intent_texts", "validate_slot">>
       /\ db = turn.before.db

\* the database fails while a booking with doctor and datetime is checked
C10_Witness ==
    /\ Understood /\ turn.branch = "book"
    /\ Called("validate_slot")
    /\ turn.req.fault = "db1"
    /\ {"doctor", "datetime"} \subseteq DOMAIN PreSession
    /\ ~PostStored

\* C11 as stated: when the cancellation of a cancel turn fails on the
\* database, nothing remains stored for the session id (no cancel_doctor,
\* cancel_flow or awaiting_info).
C11_CancelDbErrorClearsSession ==
    (/\ Understood /\ turn.branch = "cancel"
     /\ Called("cancel_appointment_flow")
     /\ turn.req.fault = "db1")
    => ~PostStored

\* the cancel context the turn has once its parameters are merged
MergedCancel ==
    LET a == IF Truthy(MergedDoctor("cancel_doctor"))
             THEN DictSet(PreSession, "cancel_doctor", MergedDoctor("cancel_doctor"))
             ELSE PreSession
    IN  IF Truthy(turn.req.date)
        THEN DictSet(a, "cancel_datetime", ToDict(turn.req.date)) ELSE a
\* the context holds a date-time that parse_datetime_param does not resolve
Unresolved(ctx, key) ==
    Truthy(DictGet(ctx, key)) /\ parse_datetime_param(ctx[key]) = None

\* C12: when the date-time of a continued book (cancel) flow with a stored
\* doctor does not resolve, the turn does not fail: the reply asks to restate
\* the time, the stored datetime (cancel_datetime) is emptied, and the doctor,
\* the flow flag and awaiting_info stay as merged.
C12_ParseFailureClearsOnlyDatetime ==
    /\ (/\ Understood /\ turn.branch = "book"
        /\ Truthy(DictGet(PreSession, "booking_flow"))
        /\ Truthy(DictGet(MergedBooking, "doctor"))
        /\ Unresolved(MergedBooking, "datetime"))
       => /\ ~turn.raised
          /\ turn.reply =
                Reply("I couldn't understand the date and time. Please specify when you'd like the appointment (e.g., 'tomorrow at 1:00 PM').",
                      <<>>)
          /\ PostStored
          /\ PostSession = DictSet(MergedBooking, "datetime", None)
          /\ PostSession["doctor"] = MergedDoctor("doctor")
          /\ PostSession["booking_flow"] = True
          /\ PostSession["awaiting_info"] = Lit("book_schedule_datetime")
    /\ (/\ Understood /\ turn.branch = "cancel"
        /\ Truthy(DictGet(PreSession, "cancel_flow"))
        /\ Truthy(DictGet(MergedCancel, "cancel_doctor"))
        /\ Unresolved(MergedCancel, "cancel_datetime"))
       => /\ ~turn.raised
          /\ turn.reply =
                Reply("I couldn't understand the date and time. Please specify when your appointment is.",
                      <<>>)
          /\ PostStored
          /\ PostSession = DictSet(MergedCancel, "cancel_datetime", None)
          /\ PostSession["cancel_doctor"] = MergedDoctor("cancel_doctor")
          /\ PostSession["cancel_flow"] = True
          /\ PostSession["awaiting_info"] = Lit("cancel_schedule_datetime")

\* a cancel flow that remembers Lee is answered with a time that is no date
C12_Witness ==
    /\ Understood /\ turn.branch = "cancel"
    /\ DictGet(PreSession, "cancel_doctor") = Str(Lee)
    /\ turn.req.date = NotIso
    /\ DictGet(PostSession, "cancel_doctor") = Str(Lee)
    /\ "cancel_datetime" \in DOMAIN PostSession
    /\ PostSession["cancel_datetime"] = None

\* C13: every list turn that reaches the slot query, one-shot or follow-up,
\* ends with nothing stored for the session id, whatever the query returned.
C13_SlotQueryEndsListFlow ==
    (Understood /\ Called("get_available_slots"))
    => /\ turn.branch \in {"list", "followup_list"}
       /\ ~turn.raised
       /\ ~PostStored

\* the database fails in the slot query of a follow-up that remembered Lee
C13_Witness ==
    /\ Understood /\ Called("get_available_slots")
    /\ turn.branch = "followup_list"
    /\ DictGet(PreSession, "schedule_doctor") = Str(Lee)
    /\ turn.reply.msg = "I'm sorry, I'm having trouble reading the schedule file."
    /\ ~PostStored

\* the date of the request does not resolve to a range
RangeFails(date_param) ==
    \/ parse_date_range_param(date_param).start = None
    \/ parse_date_range_param(date_param).end = None
\* a later utterance that only gives a date, under a non-primary intent
DateOnlyAnswer(sid, date_param) ==
    [sid |-> sid, intent |-> "Default Fallback Intent", doctor |-> Str(<<>>),
     date |-> date_param, fault |-> "none"]
\* every date-only answer is taken as the answer to the pending list question
StillAwaitingListDate ==
    \A d \in DateParams :
        Truthy(d) =>
            chat(sessions, World(db, calendar), DateOnlyAnswer(turn.req.sid, d)).branch
                = "followup_list"

C15_UnknownDoctorIsTerminal ==
    (/\ Understood /\ turn.branch = "list"
     /\ NamedDoctor
     /\ turn.req.fault # "db1"
     /\ ~DoctorExists(turn.before.db, Strip(turn.req.doctor.s)))
    => /\ turn.reply = Reply("I'm sorry, but we don't have {doctor} in our clinic.",
                             <<Str(Strip(turn.req.doctor.s))>>)
       /\ ~Called("get_available_slots")
       /\ ~PostStored

\* an unknown doctor is asked for, with a date, while a booking was pending
C15_Witness ==
    /\ Understood /\ turn.branch = "list"
    /\ turn.req.doctor = Str(Zed)
    /\ Truthy(turn.req.date)
    /\ Truthy(DictGet(PreSession, "booking_flow"))
    /\ ~PostStored

\* C16: on a session with no awaiting_info, a turn whose intent is not a
\* list, book or cancel intent returns the agent's fulfillment text and leaves
\* the context of the session, the table and the calendar as they were.
C16_ChatTurnPassesThrough ==
    (/\ Understood
     /\ ~Truthy(PreAwaiting)
     /\ FlowOfIntent(turn.req.intent) = "none")
    => /\ turn.reply = Reply("{fulfillment_text}", <<>>)
       /\ PostSession = PreSession
       /\ turn.calls = <<"detect_intent_texts">>
       /\ db = turn.before.db /\ calendar = turn.before.calendar

\* small talk carrying a doctor and a date, with no flow pending
C16_Witness ==
    /\ Understood
    /\ ~Truthy(PreAwaiting)
    /\ FlowOfIntent(turn.req.intent) = "none"
    /\ NamedDoctor /\ Truthy(turn.req.date)
    /\ turn.branch = "fallback"

\* C17: while a question is pending, a turn that ends in the fallback (an
\* intent of no flow, not taken as a follow-up answer) is answered with the
\* re-prompt of the pending question, and the session is left as it was.
C17_PendingFlowReprompts ==
    (/\ Understood
     /\ turn.branch = "fallback"
     /\ Truthy(PreAwaiting))
    => /\ turn.reply =
            (CASE PreAwaiting = Lit("list_schedules_date") ->
                    Reply("Sorry, I didn't catch that. What date were you interested in?", <<>>)
               [] PreAwaiting = Lit("book_schedule_datetime") ->
                    Reply("Sorry, I missed that. What was the doctor or time you wanted to book?",
                          <<>>)
               [] PreAwaiting = Lit("cancel_schedule_datetime") ->
                    Reply("Sorry, I didn't get that. What was the doctor or time for the cancellation?",
                          <<>>))
       /\ sessions = turn.before.sessions
       /\ turn.calls = <<"detect_intent_texts">>

\* small talk while a booking that remembers Lee waits for its time
C17_Witness ==
    /\ Understood /\ turn.branch = "fallback"
    /\ PreAwaiting = Lit("book_schedule_datetime")
    /\ DictGet(PreSession, "doctor") = Str(Lee)
    /\ sessions = turn.before.sessions

\* C18: when detect_intent_texts returns nothing, the reply is the
\* connectivity error, no service is called, and no field of the session is
\* added, changed or removed.
C18_NoResponseShortCircuits ==
    (Answered /\ turn.req.fault = "nlu")
    => /\ turn.reply = Reply("I'm having trouble connecting. Please try again.", <<>>)
       /\ turn.calls = <<"detect_intent_texts">>
       /\ PostSession = PreSession
       /\ db = turn.before.db /\ calendar = turn.before.calendar

\* the agent does not answer while a cancellation that remembers Lee is pending
C18_Witness ==
    /\ Answered /\ turn.req.fault = "nlu"
    /\ DictGet(PreSession, "cancel_doctor") = Str(Lee)
    /\ DictGet(PostSession, "cancel_doctor") = Str(Lee)

\* C19: when an error escapes a branch of the handler, the reply is the
\* generic internal-error text and the store afterwards holds no context for
\* the session id the turn worked under, also when that id was generated
\* for the turn.
C19_InternalErrorClearsTurnSession ==
    (Answered /\ turn.raised)
    => /\ turn.reply =
            Reply("I'm sorry, I encountered an internal error. Please try again.", <<>>)
       /\ turn.sid \notin DOMAIN sessions

\* two calls for the same slot have both returned
BothReturned(p, q) ==
    /\ p # q
    /\ procs[p].pc = "done" /\ procs[q].pc = "done"
    /\ procs[p].doctor = procs[q].doctor /\ procs[p].dt = procs[q].dt

\* C20: of two book_appointment calls for the same Open slot that run at the
\* same time, at most one returns success, at most one creates a calendar
\* event, and the event the slot refers to is that of the successful call.
C20_ConcurrentBookingIsAtomic ==
    \A p, q \in Callers :
        BothReturned(p, q) =>
            /\ ~(procs[p].success /\ procs[q].success)
            /\ procs[p].success =>
                /\ procs[q].event = 0
                /\ \A i \in MatchingRows(db, procs[p].doctor, procs[p].dt) :
                        db[i].event = procs[p].event

\* C21 as stated: when book_appointment has returned failure, no calendar
\* event created by that call remains in the calendar.
C21_FailedBookingLeavesNoEvent ==
    \A p \in Callers :
        (procs[p].pc = "done" /\ ~procs[p].success) => procs[p].event \notin calendar

ServiceCalled(op) == turn # NoTurn /\ turn.op = op
\* the rows of the slot the call names
SlotRows(d) == MatchingRows(d, turn.doctor, turn.dt)

\* C22: a successful cancel_appointment_flow that directly follows the
\* successful book_appointment of the same doctor and time, on a slot that was
\* Open with no event id, leaves the slot Open with no event id, every other
\* row as it was before the booking, and the calendar as it was.
C22_BookThenCancelRestores ==
    (ServiceCalled("cancel") /\ turn.round /\ turn.success)
    => /\ \A i \in SlotRows(db) : db[i].status = "Open" /\ db[i].event = 0
       /\ \A i \in DOMAIN db \ SlotRows(db) : db[i] = turn.base.db[i]
       /\ db = turn.base.db
       /\ calendar = turn.base.calendar

\* Lee's open slot is booked under a lower-case name and cancelled right away
C22_Witness ==
    /\ ServiceCalled("cancel") /\ turn.round /\ turn.success
    /\ turn.doctor = Str(<<"l", "e", "e">>)
    /\ turn.before.db[1].status = "Booked" /\ turn.before.db[1].event \in turn.before.calendar
    /\ db[1].status = "Open"

\* every row is Open or Booked, and an Open row holds no event id
StatusesAreOpenOrBooked ==
    \A i \in DOMAIN db :
        /\ db[i].status \in {"Open", "Booked"}
        /\ db[i].status = "Open" => db[i].event = 0
\* a row went from Open to Booked only in a successful book_appointment that
\* created an event and stored its id in the row
BookedOnlyWithNewEvent ==
    \A i \in DOMAIN db :
        (turn.before.db[i].status = "Open" /\ db[i].status = "Booked")
        => /\ turn.op = "book" /\ turn.success
           /\ db[i].event # 0
           /\ db[i].event \in calendar \ turn.before.calendar

\* C23 as stated: a row goes from Booked to Open only in a call that deleted
\* the event the row referred to (or found it gone): every such transition
\* has a calendar operation.
C23_EveryTransitionHasCalendarOperation ==
    (turn # NoTurn) =>
        \A i \in DOMAIN db :
            (turn.before.db[i].status = "Booked" /\ db[i].status = "Open")
            => /\ turn.op = "cancel" /\ turn.success
               /\ turn.before.db[i].event # 0
               /\ turn.before.db[i].event \notin calendar

\* C23 amended: statuses are Open or Booked and an Open row holds no event
\* id; Open to Booked happens only in a successful book_appointment that
\* created an event and stored its id; Booked to Open happens only in a
\* successful cancel_appointment_flow that cleared the id, and the event the
\* row referred to, if it referred to one, is not in the calendar afterwards.
\* A Booked row without an event id is opened without any calendar call.
C23_TransitionsPairedWhenReferenced ==
    /\ StatusesAreOpenOrBooked
    /\ (turn # NoTurn) =>
        /\ BookedOnlyWithNewEvent
        /\ \A i \in DOMAIN db :
            (turn.before.db[i].status = "Booked" /\ db[i].status = "Open")
            => /\ turn.op = "cancel" /\ turn.success
               /\ db[i].event = 0
               /\ turn.before.db[i].event # 0 => turn.before.db[i].event \notin calendar

\* the row imported as Booked, which has no event id, is cancelled
C23_Witness ==
    /\ ServiceCalled("cancel") /\ turn.success
    /\ turn.before.db[2].status = "Booked" /\ turn.before.db[2].event = 0
    /\ db[2].status = "Open"
    /\ calendar = turn.before.calendar

\* the Booked rows of the slot the call names, before the call
BookedBefore == {i \in SlotRows(turn.before.db) : turn.before.db[i].status = "Booked"}
Unchanged == db = turn.before.db /\ calendar = turn.before.calendar

\* C24: cancel_appointment_flow succeeds only for a slot that is Booked; for
\* an Open or absent slot it fails and changes nothing; an event that is
\* already gone from the calendar does not stop the cancellation; any other
\* calendar failure fails the call and leaves the row Booked with its event id.
C24_CancelOutcomes ==
    ServiceCalled("cancel") =>
        /\ turn.success => BookedBefore # {}
        /\ BookedBefore = {} => (~turn.success /\ Unchanged)
        /\ (/\ BookedBefore # {} /\ ~turn.dbFails
            /\ turn.before.db[FirstOf(BookedBefore)].event # 0
            /\ turn.before.db[FirstOf(BookedBefore)].event \notin turn.before.calendar
            /\ ~turn.calFails)
           => /\ turn.success
              /\ \A i \in SlotRows(db) : db[i].status = "Open" /\ db[i].event = 0
        /\ (/\ BookedBefore # {} /\ ~turn.dbFails
            /\ turn.before.db[FirstOf(BookedBefore)].event # 0
            /\ turn.calFails)
           => /\ ~turn.success
              /\ turn.message =
                    Reply("Failed to cancel the calendar event. Please try again.", <<>>)
              /\ Unchanged

\* the event of a booking was deleted in the calendar before the cancellation
C24_Witness ==
    /\ ServiceCalled("cancel") /\ turn.success
    /\ BookedBefore # {}
    /\ turn.before.db[FirstOf(BookedBefore)].event # 0
    /\ turn.before.db[FirstOf(BookedBefore)].event \notin turn.before.calendar

\* the part of a store that belongs to one session id
Only(store, sid) == [x \in DOMAIN store \cap {sid} |-> store[x]]
\* a turn of each kind for the session id, naming Lee and his open slot
TurnSamples(sid) ==
    [sid : {sid}, intent : Intents, doctor : {Str(Lee)}, date : {IsoStr(1, 13, FALSE)},
     fault : {"none"}]
\* a turn for sid leaves every other context as it is and gives the reply
\* and the context it gives when the store holds sid's context alone
TurnsAreConfined ==
    \A c \in Callers : \A req \in TurnSamples(KeyOf(c)) :
        LET sid == KeyOf(c)
            res == chat(sessions, World(db, calendar), req)
            alone == chat(Only(sessions, sid), World(db, calendar), req)
        IN  /\ \A o \in DOMAIN sessions \ {sid} :
                    o \in DOMAIN res.sessions /\ res.sessions[o] = sessions[o]
            /\ DOMAIN res.sessions \ {sid} = DOMAIN sessions \ {sid}
            /\ res.reply = alone.reply
            /\ Only(res.sessions, sid) = Only(alone.sessions, sid)

C26_GetSessionIsIdempotent ==
    /\ \A sid \in {"s1", "s2"} :
        LET once == get_session(sessions, sid)
            twice == get_session(once, sid)
        IN  /\ DOMAIN once = DOMAIN sessions \cup {sid}
            /\ \A o \in DOMAIN sessions : once[o] = sessions[o]
            /\ sid \notin DOMAIN sessions => once[sid] = EmptyDict
            /\ twice = once
    /\ \A c \in Callers :
        (procs[c].pc = "idle" /\ procs[c].op = "get")
        => /\ KeyOf(c) \in DOMAIN sessions
           /\ procs[c].result = sessions[KeyOf(c)]
           /\ procs[c].created => procs[c].result = EmptyDict

\* get_session returned a stored context with both fields, creating nothing
C26_Witness ==
    /\ procs[1].pc = "idle" /\ procs[1].op = "get"
    /\ ~procs[1].created
    /\ DOMAIN procs[1].result = {"awaiting_info", "doctor"}
    /\ procs[2].pc = "idle" /\ procs[2].op = "get" /\ procs[2].created

\* C27: clear_session changes nothing when the id is absent and otherwise
\* removes the context of that id and no other; after it get_session gives an
\* empty context and update_session(id, k, v) a context holding only k.
C27_ClearSessionRemovesExactlyOne ==
    /\ \A sid \in {"s1", "s2"} :
        LET cleared == clear_session(sessions, sid)
        IN  /\ sid \notin DOMAIN sessions => cleared = sessions
            /\ DOMAIN cleared = DOMAIN sessions \ {sid}
            /\ \A o \in DOMAIN cleared : cleared[o] = sessions[o]
            /\ get_session(cleared, sid)[sid] = EmptyDict
            /\ \A k \in StoreKeys :
                update_session(cleared, sid, k, StoreValue(k))[sid]
                    = [x \in {k} |-> StoreValue(k)]
    /\ \A c \in Callers :
        (procs[c].pc = "idle" /\ procs[c].op = "clear") => KeyOf(c) \notin DOMAIN sessions
    /\ \A c \in Callers :
        (procs[c].pc = "idle" /\ procs[c].op = "update" /\ procs[c].created)
        => sessions[KeyOf(c)] = [x \in {procs[c].key} |-> procs[c].value]

\* an update has just rebuilt the context of s1 from nothing, s2 holds two fields
C27_Witness ==
    /\ procs[1].pc = "idle" /\ procs[1].op = "update" /\ procs[1].created
    /\ DOMAIN sessions["s1"] = {"doctor"}
    /\ "s2" \in DOMAIN sessions /\ DOMAIN sessions["s2"] = {"awaiting_info", "doctor"}

\* the services behind the orchestrator
Downstream == {"get_available_slots", "validate_slot", "book_appointment",
               "cancel_appointment_flow"}
CallsTo(services) == Cardinality({i \in 1..Len(turn.calls) : turn.calls[i] \in services})
\* what a turn calls after the NLU adapter, in order
AfterNlu == IF turn.calls = <<>> THEN <<>> ELSE Tail(turn.calls)

\* C28 as stated: a turn makes at most one NLU-adapter call and at most one
\* call of a downstream service.
C28_AtMostOneDownstreamCall ==
    turn # NoTurn =>
        /\ CallsTo({"detect_intent_texts"}) <= 1
        /\ CallsTo(Downstream) <= 1

\* C28 amended: a turn makes exactly one NLU-adapter call, first, and then,
\* one after the other, at most two calls: the slot query, alone or after the
\* doctor lookup of a list turn that names a doctor; the slot-status check,
\* followed by the booking exactly when the slot is available; or the
\* cancellation alone.  A slot query, a booking and a cancellation never
\* occur together in one turn.
C28_CallsPerTurn ==
    turn # NoTurn =>
        /\ turn.calls # <<>> /\ Head(turn.calls) = "detect_intent_texts"
        /\ AfterNlu \in {<<>>,
                         <<"get_available_slots">>,
                         <<"doctor_exists">>,
                         <<"doctor_exists", "get_available_slots">>,
                         <<"validate_slot">>,
                         <<"validate_slot", "book_appointment">>,
                         <<"cancel_appointment_flow">>}
        /\ (AfterNlu = <<"validate_slot", "book_appointment">>) <=> SlotWasAvailable
        /\ turn.branch = "list" /\ NamedDoctor => Called("doctor_exists")

\* a list turn that names a known doctor and a date: the lookup, then the query
C28_Witness ==
    /\ turn # NoTurn
    /\ turn.branch = "list"
    /\ turn.calls = <<"detect_intent_texts", "doctor_exists", "get_available_slots">>
    /\ ~turn.raised

\* a turn of the LLM variant has just been answered
LlmAnswered == turn # NoTurn /\ turn.t = "llm"
\* the slot the extraction names was Open when the turn began
NamedSlotWasOpen ==
    /\ Truthy(turn.response.doctor)
    /\ parse_datetime_param(turn.response.datetime) # None
    /\ validate_slot(turn.before.db, turn.response.doctor,
                     parse_datetime_param(turn.response.datetime), FALSE) = "available"

\* C29: in the LLM variant book_appointment runs in a turn only if the
\* extraction returned type book with is_confirmation true and the slot was
\* available, cancel_appointment_flow only if it returned type cancel with
\* is_confirmation true; when is_confirmation is false or absent the
\* schedule table and the calendar are after the turn what they were before.
C29_CommitOnlyOnConfirmation ==
    LlmAnswered =>
        /\ Called("book_appointment") =>
            /\ turn.structured.type = "book"
            /\ turn.structured.is_confirmation = True
            /\ NamedSlotWasOpen
            /\ turn.calls = <<"process_query", "validate_slot", "book_appointment">>
        /\ Called("cancel_appointment_flow") =>
            /\ turn.structured.type = "cancel"
            /\ turn.structured.is_confirmation = True
        /\ turn.structured.is_confirmation \in {False, None} =>
            /\ db = turn.before.db
            /\ calendar = turn.before.calendar

\* a confirmed book turn has booked the slot; before it the agent had asked for
\* the confirmation and nothing had been written
C29_Witness ==
    /\ LlmAnswered
    /\ turn.structured.is_confirmation = True
    /\ Called("book_appointment")
    /\ db # turn.before.db /\ calendar # turn.before.calendar
    /\ Len(turn.before.llm.conversation) = 3
    /\ turn.before.llm.conversation[3].content.msg =
        "Just to confirm, you'd like to book an appointment with {doctor} at {time_str}. Should I proceed?"
    /\ turn.before.db = InitDb

\* C30: in the LLM variant the history handed to the extraction for a turn
\* holds, after the system message, only messages of the conversation the
\* turn belongs to: the user messages that conversation sent and the
\* assistant messages that answered them.
C30_HistoryIsOfOneConversation ==
    LlmAnswered =>
        \A i \in 1..Len(turn.input) :
            turn.input[i].role # "system" => turn.input[i].sender = turn.sender

\* a book turn has ended by asking for the doctor or for the date and time
BookTurnAsks ==
    /\ Understood /\ turn.branch = "book" /\ ~turn.raised
    /\ turn.reply.msg \in {AskDoctorMsg, AskDateTimeMsg}
\* what an earlier turn of the same booking flow stored under a key
StoredInFlow(key) ==
    IF Truthy(DictGet(PreSession, "booking_flow")) THEN DictGet(PreSession, key) ELSE None
BlankDoctor == turn.req.doctor.t = "str" /\ Strip(turn.req.doctor.s) = <<>>

\* C31: after a book turn that ends by asking for the doctor or for the date
\* and time, the stored session has booking_flow true and awaiting_info the
\* booking marker; a doctor named in the turn is stored (stripped), a
\* date-time given in the turn is stored, and where the turn gives an empty
\* doctor or no date-time the value an earlier turn of the same booking flow
\* stored is still there.
C31_AskingBookTurnKeepsContext ==
    BookTurnAsks =>
        /\ PostStored
        /\ DictGet(PostSession, "booking_flow") = True
        /\ DictGet(PostSession, "awaiting_info") = Lit("book_schedule_datetime")
        /\ NamedDoctor => DictGet(PostSession, "doctor") = Str(Strip(turn.req.doctor.s))
        /\ BlankDoctor => DictGet(PostSession, "doctor") = StoredInFlow("doctor")
        /\ Truthy(turn.req.date) => DictGet(PostSession, "datetime") = ToDict(turn.req.date)
        /\ ~Truthy(turn.req.date) => DictGet(PostSession, "datetime") = StoredInFlow("datetime")

\* the flow held a date-time and no doctor; the turn names neither, is asked
\* for the doctor again, and the date-time is still stored
C31_Witness ==
    /\ BookTurnAsks
    /\ Truthy(DictGet(PreSession, "booking_flow"))
    /\ Truthy(DictGet(PreSession, "datetime"))
    /\ BlankDoctor /\ ~Truthy(turn.req.date)
    /\ turn.reply.msg = AskDoctorMsg
    /\ DictGet(PostSession, "datetime") = DictGet(PreSession, "datetime")

\* a list request has been answered both ways
ListsAnswered == turn # NoTurn /\ turn.t = "lists"
\* the doctor filter of the request and the result of its slot query
ListDoctor == StripOrNone(turn.doctor)
QueryResult(range) ==
    get_available_slots(db, range.start, range.end, ListDoctor, turn.queryFails)
Queried(res) ==
    res # NoTurn /\ \E i \in 1..Len(res.calls) : res.calls[i] = "get_available_slots"
\* the clock reading a formatted slot time stands for
Hour24(time) == (IF time.pm THEN 12 ELSE 0) + (time.h12 % 12)
\* the reply follows the precedence over the query result r
ChosenByPrecedence(reply, r, date_str) ==
    /\ r.slots = None =>
        reply = Reply("I'm sorry, I'm having trouble reading the schedule file.", <<>>)
    /\ (r.slots # None /\ r.doctor_exists = "False") =>
        reply = Reply("I'm sorry, but we don't have {doctor} in our clinic.", <<ListDoctor>>)
    /\ (r.slots # None /\ r.doctor_exists # "False" /\ r.slots.items = <<>>) =>
        reply = IF Truthy(ListDoctor)
                THEN Reply("{doctor} has no available slots on {date_str}.",
                           <<ListDoctor, date_str>>)
                ELSE Reply("There are no available slots on {date_str}.", <<date_str>>)
    /\ (r.slots # None /\ r.doctor_exists # "False" /\ r.slots.items # <<>>) =>
        /\ reply = IF Truthy(ListDoctor)
                   THEN Reply("{doctor} has the following open slots on {date_str}: {slots_str}.",
                              <<ListDoctor, date_str, r.slots>>)
                   ELSE Reply("The following slots are open on {date_str}: {slots_str}.",
                              <<date_str, r.slots>>)
        /\ date_str.days = <<1>> =>
            \A i, j \in 1..Len(r.slots.items) :
                i < j => Hour24(r.slots.items[i]) <= Hour24(r.slots.items[j])

\* C32: the slot-list reply follows a fixed precedence over the query result:
\* a failed read gives the data-unavailable message, otherwise an unknown
\* doctor the not-in-clinic message, otherwise an empty list "no available
\* slots" (naming the doctor only when one was given), otherwise the slot
\* times in query order, earliest first.  A request answered in one turn and
\* the same request answered as a follow-up give the same reply whenever both
\* make the query.
C32_SlotListReplyPrecedence ==
    ListsAnswered =>
        LET whole == parse_date_range_param(ToDict(turn.date))
            later == parse_date_range_param(turn.date)
        IN  /\ Queried(turn.one_shot) =>
                ChosenByPrecedence(turn.one_shot.reply, QueryResult(whole),
                                   DateStr(whole.start, whole.end))
            /\ Queried(turn.follow_up) =>
                ChosenByPrecedence(turn.follow_up.reply, QueryResult(later),
                                   DateStr(later.start, later.end))
            /\ (Queried(turn.one_shot) /\ Queried(turn.follow_up)) =>
                turn.one_shot.reply = turn.follow_up.reply
            /\ (Truthy(ListDoctor) /\ ~DoctorExists(db, ListDoctor.s)) =>
                turn.one_shot.reply =
                    Reply("I'm sorry, but we don't have {doctor} in our clinic.", <<ListDoctor>>)

\* both ways list Lee's three open slots of the day, stored out of order
C32_Witness ==
    /\ ListsAnswered
    /\ Queried(turn.one_shot) /\ Queried(turn.follow_up)
    /\ turn.doctor = Str(Lee)
    /\ Len(turn.follow_up.reply.args) = 3
    /\ Len(turn.follow_up.reply.args[3].items) = 3
    /\ Hour24(turn.one_shot.reply.args[3].items[1]) = 9

\* parse_date_range_param has returned
RangeResolved == turn # NoTurn /\ turn.t = "range"
\* a single date, as a string the function accepts
AcceptedDate(v) == v.t = "str" /\ "iso" \in DOMAIN v /\ v.iso /\ ~v.off

\* C33: parse_date_range_param never raises and returns either no range or
\* a non-empty half-open range of local midnights, start strictly before
\* end; a single date gives that day up to the next, and a start/end pair on
\* one calendar day has its end moved one day on.
C33_RangeIsNonEmptyOrFails ==
    RangeResolved =>
        LET start == turn.range.start
            end == turn.range.end
            p == turn.date_param
        IN  /\ \/ start = None \/ end = None
               \/ /\ start.hour = 0 /\ end.hour = 0
                  /\ Before(start, end)
            /\ AcceptedDate(p) =>
                start = DateTime(p.day, 0) /\ end = DateTime(p.day + 1, 0)
            /\ (/\ p.t = "map" /\ ~p.raw /\ DOMAIN p.m = {"startDate", "endDate"}
                /\ AcceptedDate(p.m.startDate) /\ AcceptedDate(p.m.endDate)
                /\ p.m.startDate.day = p.m.endDate.day) =>
                start = DateTime(p.m.startDate.day, 0) /\ end = DateTime(start.day + 1, 0)
            /\ (p.t \notin {"str", "map"} \/ (p.t = "map" /\ p.raw) \/ p = NotIso) =>
                start = None /\ end = None

\* the turn called validate_slot and, directly after it, book_appointment
BookedAfterCheck ==
    \E i \in 1..(Len(turn.calls) - 1) :
        /\ turn.calls[i] = "validate_slot"
        /\ turn.calls[i + 1] = "book_appointment"
        /\ \A j \in 1..(i - 1) : turn.calls[j] \notin {"validate_slot", "book_appointment"}
        /\ i + 1 = Len(turn.calls)

\* C34: in a book turn of either variant book_appointment is invoked only
\* directly after the validate_slot call of the same turn, for the same
\* doctor and date-time, found the slot available; it is not invoked when
\* the check answered booked, not_found or error or when the date-time did
\* not resolve.
C34_BookingFollowsAvailableCheck ==
    (turn # NoTurn /\ turn.t \in {"turn", "llm"} /\ Called("book_appointment")) =>
        /\ BookedAfterCheck
        /\ turn.t = "turn" => SlotWasAvailable
        /\ turn.t = "llm" => (NamedSlotWasOpen /\ turn.fault # "db1")

\* an LLM turn checked the slot, found it open and called book_appointment,
\* whose calendar call failed
C34_Witness ==
    /\ LlmAnswered
    /\ turn.calls = <<"process_query", "validate_slot", "book_appointment">>
    /\ turn.fault = "cal"
    /\ NamedSlotWasOpen
    /\ turn.reply = Reply("Booking failed, please try again.", <<>>)

\* the marker and the flow fields of one stored context agree
FlowFieldsAgree(ctx) ==
    LET awaiting == DictGet(ctx, "awaiting_info")
    IN  /\ (awaiting = Lit("book_schedule_datetime")) <=> (DictGet(ctx, "booking_flow") = True)
        /\ (awaiting = Lit("cancel_schedule_datetime")) <=> (DictGet(ctx, "cancel_flow") = True)
        /\ DOMAIN ctx \cap {"doctor", "datetime"} # {} => DictGet(ctx, "booking_flow") = True
        /\ DOMAIN ctx \cap {"cancel_doctor", "cancel_datetime"} # {} =>
                DictGet(ctx, "cancel_flow") = True
        /\ "schedule_doctor" \in DOMAIN ctx => awaiting = Lit("list_schedules_date")
        /\ ~(DictGet(ctx, "booking_flow") = True /\ DictGet(ctx, "cancel_flow") = True)

\* C35: in every stored session the pending marker and the flow fields
\* agree: awaiting_info is the booking marker exactly when booking_flow is
\* true and the cancel marker exactly when cancel_flow is true; doctor and
\* datetime occur only in a booking flow, cancel_doctor and cancel_datetime
\* only in a cancel flow, schedule_doctor only while a list date is awaited.
C35_MarkerAndFlowFieldsAgree ==
    \A sid \in DOMAIN sessions : FlowFieldsAgree(sessions[sid])

\* a cancel turn has replaced a standing booking context holding a doctor
C35_Witness ==
    /\ Understood /\ turn.branch = "cancel"
    /\ DictGet(PreSession, "booking_flow") = True
    /\ "doctor" \in DOMAIN PreSession
    /\ PostStored
    /\ DictGet(PostSession, "cancel_flow") = True
    /\ "cancel_doctor" \in DOMAIN PostSession

\* C36: the session_id a reply of the Dialogflow variant carries is the id the
\* turn read and wrote its session under: the id of the request when it has
\* one, and otherwise the one id generated for the turn, also when the turn
\* ends in the internal-error reply.
C36_ReturnedIdIsTurnId ==
    (turn # NoTurn /\ turn.t = "turn") =>
        /\ turn.session_id = turn.sid
        /\ turn.req.sid # NoSessionId => turn.session_id = turn.req.sid

\* the turn being answered is the repeated booking request
RepeatedTurn == turn # NoTurn /\ turn.req \in RepeatedRequests

\* C37: no booking conversation gets stuck: whatever the earlier turns left
\* in the session, when from some turn on every turn is the repeated booking
\* request for Lee's open slot and no call fails, the slot eventually is
\* Booked and no session is stored.
C37_RepeatedBookingSucceeds ==
    <>[](turn = NoTurn \/ RepeatedTurn) => <>(~LeeSlotOpen /\ "s1" \notin DOMAIN sessions)

\* C38: in the LLM variant every turn whose extracted type is book or cancel
\* returns a reply with text, whatever the doctor, the date-time, the
\* confirmation and the slot status are.
C38_BookAndCancelTurnsReply ==
    (LlmAnswered /\ turn.response.type \in {"book", "cancel"}) =>
        turn.reply.msg # ""

\* C39: in the LLM variant, after every turn the history starts with the
\* system message and ends with the assistant entry of the turn, whose
\* content is the reply the turn returned.
C39_HistoryRecordsReturnedReply ==
    LlmAnswered =>
        LET last == llm.conversation[Len(llm.conversation)]
        IN  /\ llm.conversation[1] = generate_initial_context
            /\ Len(llm.conversation) = Len(turn.before.llm.conversation) + 2
            /\ last.role = "assistant"
            /\ last.content = turn.reply

====
